---- MODULE Spec2Model ----
(***************************************************************************)
(* Model of the stockit market-data core.                                  *)
(*                                                                         *)
(*   SpecWS : WebSocketManager (frontend/src/services/websocket.service.ts)*)
(*            driven by the useStockUpdates hook, browser socket events    *)
(*            and timers.                                                  *)
(*   SpecHD : DataService.getHistoricalData with the polygon response      *)
(*            interceptor (src/services/data.service.js).                  *)
(*                                                                         *)
(* JavaScript is single threaded: every action below is one task (or one   *)
(* microtask continuation) run to its next await.                          *)
(***************************************************************************)
EXTENDS Integers, Sequences, FiniteSets, TLC

\* ------------------------------------------------------------------ bounds
NumSymbols == 2
MaxCalls == 3
MaxHist == 4
MaxRequests == 4
MaxFetches == 2
MaxIdles == 1
MaxBcCalls == 2
MaxMessages == 3
MaxFlushes == 2
MaxFrames == 2
MaxPrices == 3
MaxEvaluations == 2
MaxStarts == 3
MaxSelected == 7
MaxTicks == 1
MaxWaiting == 3

\* WebSocketConfig values (constructor defaults 5 and 10), scaled down
reconnectAttempts == 1
subscriptionBatchSize == 2

Symbols == 1..NumSymbols
NoEntry == -1

VARIABLES
  connections,        \* Map<string, WebSocket>: readyState of the registered socket, "none" = no key
  reconnectAttemptsMap, \* Map<string, number>; NoEntry = no key
  subscriptionQueue,  \* Set<string> in insertion order
  processingQueue,    \* boolean
  workers,            \* running processSubscriptionQueue() invocations
  closing,            \* sockets dropped from the map by close(), close event not yet delivered
  timers,             \* handleDisconnection() invocations sleeping in the reconnect delay
  bad,                \* symbols for which `new WebSocket(url)` throws
  live,               \* number of CONNECTING/OPEN sockets the manager created, per symbol
  unsubscribed,       \* history: unsubscribe(s) hit a connected s, no subscribe(s) since
  exhausted,          \* history: handleDisconnection(s) gave up on s, no subscribe(s) since
  cancelled,          \* history: unsubscribe(s) hit a pending, unconnected s, no subscribe(s) since
  batches,            \* history: sizes of the batches of the current drain
  delays,             \* history: inter-batch delays of the current drain
  burstN,             \* history: size of the hook burst that started the current drain (0: none)
  round,              \* history: parity of the loop iterations of the current drain
  calls,         \* history: number of calls of the manager's public methods so far
  batchSize      \* config.subscriptionBatchSize of this manager

wsVars == <<connections, reconnectAttemptsMap, subscriptionQueue, processingQueue,
            workers, closing, timers, bad, live, unsubscribed, exhausted, cancelled,
            batches, delays, burstN, round, calls, batchSize>>

\* the configuration is fixed by the constructor
wsConfig == <<batchSize>>

VARIABLES
  hpc,          \* position of the getHistoricalData call
  attempt,      \* loop variable of the retry loop
  pendingWait,  \* duration of the setTimeout the call sleeps in
  now,          \* earliest possible clock reading since the call started, ms
  cache,        \* global.stockCache entry of the call's key: stored JSON text, or NoCache
  result,       \* value the call resolved to
  outcome,      \* "pending", "returned" or "thrown"
  requests,     \* history: upstream requests issued by the current call
  responses,    \* history: upstream responses received by the current call
  issuedAt,     \* history: time each request was issued
  receivedAt,   \* history: time each response arrived
  waits,        \* history: backoff sleeps of the current call
  cacheAtStart, \* history: cache entry the call found when it started (NoCache: a miss)
  fetches,      \* history: number of getHistoricalData calls so far
  cacheAge,     \* seconds since the cache entry was written (a lower bound)
  payload,      \* history: results array of the last status 200 response
  cachedSeries, \* history: the series whose JSON text the cache entry holds
  ageAtStart,   \* history: age of the cache entry when the call started
  idles         \* history: number of idle periods so far

hdVars == <<hpc, attempt, pendingWait, now, cache, result, outcome, requests,
            responses, issuedAt, receivedAt, waits, cacheAtStart, fetches,
            cacheAge, payload, cachedSeries, ageAtStart, idles>>

\* DataService.getBlueChipStocks and the polygon interceptor around it
VARIABLES
  bpc,          \* position of the call: idle, list, rlwait, jitter, delay, details, done
  bcBack,       \* the request the interceptor re-issues after a 429
  blueChipStocks, \* the list under construction
  bcTodo,       \* response.data.results from the current stock on
  bcCache,      \* entry 'blue_chip_stocks' of global.stockCache
  bcResult,     \* list the last call returned
  bcListFailed, \* history: the ticker-list request of the call failed
  bcLimited,    \* history: the ticker-list request of the call got a 429
  bcCalls       \* history: number of getBlueChipStocks calls so far

bcVars == <<bpc, bcBack, blueChipStocks, bcTodo, bcCache, bcResult, bcListFailed,
            bcLimited, bcCalls>>

\* scanBlueChipStocks (request handler of the analysis service)
VARIABLES
  spc,          \* position of the handler: idle, done
  scSymbols,    \* req.body.symbols
  scData,       \* what processing req.body.historical_data[symbol] computes
  scMin,        \* req.body.min_gain_potential
  scOpps,       \* opportunities of the response
  scStatus      \* status of the response

scVars == <<spc, scSymbols, scData, scMin, scOpps, scStatus>>

\* BlueChipScanner and its useStockUpdates hook
VARIABLES
  opportunities, \* state of BlueChipScanner
  updates,       \* state of the hook: the Map, as its entries in insertion order
  batchUpdates,  \* option of the hook
  hookError,     \* state of the hook: an error message is set
  fresh,         \* history: symbols updated since the previous flush
  freshAtFlush,  \* history: fresh when the last flush ran
  latestAtFlush, \* history: the latest update of every symbol when the last flush ran
  delivered,     \* history: the updates the last delivery passed to onUpdate
  oppsBefore,    \* history: opportunities before the last delivery
  flushes,       \* history: number of interval ticks so far
  messages,      \* history: number of messages so far
  latestOf,      \* history: per symbol, the price of its last trade or quote message
  errors,        \* history: number of messages of type 'error' so far
  onUpdateCalls, \* history: number of onUpdate calls so far
  elapsed,       \* time since the batch effect armed its interval, in half intervals
  waiting        \* history: age of the oldest update not yet flushed, in half intervals

uiVars == <<opportunities, updates, batchUpdates, hookError, fresh, freshAtFlush,
            latestAtFlush, delivered, oppsBefore, flushes, messages, latestOf,
            errors, onUpdateCalls, elapsed, waiting>>

\* the socket handlers of setupWebSocketHandlers and the message Subject
VARIABLES
  listeners,    \* the observers subscribed to messageSubject
  lastFrame,    \* history: the parsed frame of the last onmessage event
  lastMessage,  \* history: the message the last event passed to messageSubject.next
  listenersAt,  \* history: the listeners when the last event arrived
  got,          \* history: deliveries of the last event to every listener
  frames        \* history: number of socket events so far

msVars == <<listeners, lastFrame, lastMessage, listenersAt, got, frames>>

\* the scoring functions of the analysis service
VARIABLES
  cPrices,      \* prices of the last evaluation
  cMarket,      \* market prices of the last evaluation
  cVolatility,  \* calculateVolatility(prices)
  cTrend,       \* calculateTrendStrength(prices)
  cConsistency, \* calculateConsistency(prices)
  cCorrelation, \* calculateMarketCorrelation(prices, market)
  cConfidence,  \* calculateConfidence(volatility, correlation, prices)
  cpc,          \* position of the evaluation: idle, done
  evaluations   \* history: number of evaluations so far

clVars == <<cPrices, cMarket, cVolatility, cTrend, cConsistency, cCorrelation,
            cConfidence, cpc, evaluations>>

\* two callers of getHistoricalData on one cache key
VARIABLES
  kpc,        \* per caller: where its call stands
  kAttempt,   \* per caller: `attempt` of the retry loop
  kCache,     \* global.stockCache entry of the key
  kResult,    \* per caller: what its last call returned
  kPayload,   \* history: per caller, the results array its call processed
  kHit,       \* history: callers whose current call was served from the cache
  kLastWrite, \* history: the value the latest cache write stored
  kWrites,    \* history: every value ever stored under the key
  kRaced,     \* history: two calls were in flight after both missed the cache
  kLimited,   \* history: callers whose current call was answered 429
  kStarts     \* history: number of calls started so far

ccVars == <<kpc, kAttempt, kCache, kResult, kPayload, kHit, kLastWrite, kWrites,
            kRaced, kLimited, kStarts>>

\* BlueChipScanner.scanStocks
VARIABLES
  ssPc,                 \* where the scanStocks call stands
  selectedStocks,       \* state of BlueChipScanner captured by the call
  batchNo,              \* index in batches of the batch the loop is at (0: none yet)
  inFlight,             \* symbols whose getHistoricalData promise is pending
  batchResults,         \* per symbol of the batch at hand: how its promise settled
  validHistoricalData,  \* the keys of validHistoricalData, in insertion order
  failedStocks,         \* failedStocks
  shown,                \* the opportunities state during the scan
  fetched,              \* history: symbols whose fetch was started
  chunkDelays,          \* history: number of inter-chunk delays that elapsed
  lastDelayed,          \* history: the batch after which the latest delay ran
  mergePrev,            \* history: the list before the latest merge
  mergeNew,             \* history: the partial result of the latest merge
  merges,               \* history: number of merges so far
  ticks,                \* history: number of live updates applied during the scan
  subscribeCalls,       \* history: websocketService.subscribe calls of the hook so far
  unsubscribeCalls      \* history: websocketService.unsubscribe calls of the hook so far

ssVars == <<ssPc, selectedStocks, batchNo, inFlight, batchResults, validHistoricalData,
            failedStocks, shown, fetched, chunkDelays, lastDelayed, mergePrev,
            mergeNew, merges, ticks, subscribeCalls, unsubscribeCalls>>

exceptWS == <<hdVars, bcVars, scVars, uiVars, msVars, clVars, wsConfig, ccVars, ssVars>>
exceptHD == <<wsVars, bcVars, scVars, uiVars, msVars, clVars, ccVars, ssVars>>
exceptBC == <<wsVars, hdVars, scVars, uiVars, msVars, clVars, ccVars, ssVars>>
exceptSC == <<wsVars, hdVars, bcVars, uiVars, msVars, clVars, ccVars, ssVars>>
exceptUI == <<wsVars, hdVars, bcVars, scVars, msVars, clVars, ccVars, ssVars>>
exceptMS == <<wsVars, hdVars, bcVars, scVars, uiVars, clVars, ccVars, ssVars>>
exceptCL == <<wsVars, hdVars, bcVars, scVars, uiVars, msVars, ccVars, ssVars>>
exceptCC == <<wsVars, hdVars, bcVars, scVars, uiVars, msVars, clVars, ssVars>>
exceptSS == <<wsVars, hdVars, bcVars, scVars, uiVars, msVars, clVars, ccVars>>

vars == <<wsVars, hdVars, bcVars, scVars, uiVars, msVars, clVars, ccVars, ssVars>>

\* ----------------------------------------------------------------- helpers
Range(q) == {q[i] : i \in 1..Len(q)}

Min(a, b) == IF a < b THEN a ELSE b

\* Set.add keeps the insertion position of an element already present
SetAdd(q, s) == IF s \in Range(q) THEN q ELSE Append(q, s)

RECURSIVE SetAddAll(_, _)
SetAddAll(q, ss) == IF ss = <<>> THEN q ELSE SetAddAll(SetAdd(q, Head(ss)), Tail(ss))

\* batch.forEach(symbol => subscriptionQueue.delete(symbol))
SetDeleteAll(q, ss) == SelectSeq(q, LAMBDA x : x \notin Range(ss))

\* Array.from(subscriptionQueue).slice(0, batchSize)
Batch(q) == SubSeq(q, 1, Min(batchSize, Len(q)))

\* the history of a drain is kept for drains started by a hook burst that
\* no other subscribe call joined, up to MaxHist batches
Recorded(h, n) == IF burstN > 0 /\ Len(h) < MaxHist THEN Append(h, n) ELSE h

Delayed(d) == IF burstN > 0 /\ d < MaxHist THEN d + 1 ELSE d

IsLive(st) == st \in {"connecting", "open"}

\* this.connections.get(symbol) is defined
HasConnection(s) == connections[s] # "none"

AlreadyConnected_NoCheck(s) == FALSE

\* connectToSymbol: `if (this.connections.has(symbol)) return;`
AlreadyConnected(s) == HasConnection(s)

\* connectToSymbol rejects: the WebSocket constructor threw
ConnectThrows(s) == ~AlreadyConnected(s) /\ s \in bad

\* connectToSymbol registers a new socket
ConnectCreates(s) == ~AlreadyConnected(s) /\ s \notin bad

\* state after connectToSymbol has run for every symbol of S
ConnectAll(S) ==
  /\ connections' = [s \in Symbols |->
        IF s \in S /\ ConnectCreates(s) THEN "connecting" ELSE connections[s]]
  /\ reconnectAttemptsMap' = [s \in Symbols |->
        IF s \in S /\ ConnectCreates(s) THEN 0 ELSE reconnectAttemptsMap[s]]
  /\ live' = [s \in Symbols |->
        IF s \in S /\ ConnectCreates(s) THEN live[s] + 1 ELSE live[s]]

\* --------------------------------------------------------------------- Init
InitManager ==
  /\ connections = [s \in Symbols |-> "none"]
  /\ reconnectAttemptsMap = [s \in Symbols |-> NoEntry]
  /\ subscriptionQueue = <<>>
  /\ processingQueue = FALSE
  /\ workers = <<>>
  /\ closing = [s \in Symbols |-> 0]
  /\ timers = [s \in Symbols |-> 0]
  /\ bad \in SUBSET Symbols
  /\ live = [s \in Symbols |-> 0]
  /\ unsubscribed = {}
  /\ exhausted = {}
  /\ cancelled = {}
  /\ batches = <<>>
  /\ delays = 0
  /\ burstN = 0
  /\ round = 0
  /\ calls = 0

\* new WebSocketManager(config)
InitWS == InitManager /\ batchSize = subscriptionBatchSize

\* new WebSocketManager({ subscriptionBatchSize: 1 })
InitWSOne == InitManager /\ batchSize = 1

\* ------------------------------------------------- WebSocketManager actions
Attempts(s) == IF reconnectAttemptsMap[s] = NoEntry THEN 0 ELSE reconnectAttemptsMap[s]

\* a processSubscriptionQueue() continuation is queued as a microtask: no
\* socket event or timer callback can run before it
NoMicrotask == \A i \in 1..Len(workers) : workers[i].pc # "await"

RemoveAt(q, i) == SubSeq(q, 1, i - 1) \o SubSeq(q, i + 1, Len(q))

DrainActive_NoGuard == FALSE

\* subscribe: `if (!this.processingQueue)`
DrainActive == processingQueue

\* a batch rejects as soon as one connectToSymbol of it rejects (Promise.all)
BatchFailed(b) == \E x \in Range(b) : ConnectThrows(x)

AfterBatch_Always(q, b, failed) == SetDeleteAll(q, b)

\* the queue after `await Promise.all(promises)` settled for batch b
AfterBatch(q, b, failed) == IF failed THEN q ELSE SetDeleteAll(q, b)

\* subscribe(symbol)
Subscribe(s) ==
  LET q1 == SetAdd(subscriptionQueue, s)
      b  == Batch(q1)
  IN /\ calls < MaxCalls
     /\ calls' = calls + 1
     /\ subscriptionQueue' = q1
     /\ unsubscribed' = unsubscribed \ {s}
     /\ exhausted' = exhausted \ {s}
     /\ cancelled' = cancelled \ {s}
     /\ burstN' = 0
     /\ batches' = <<>>
     /\ delays' = 0
     /\ IF DrainActive
          THEN UNCHANGED <<connections, reconnectAttemptsMap, live, processingQueue,
                           workers>>
          ELSE /\ processingQueue' = TRUE
               /\ ConnectAll(Range(b))
               /\ workers' = Append(workers,
                     [pc |-> "await", batch |-> b, failed |-> BatchFailed(b)])
     /\ UNCHANGED <<closing, timers, bad>>
     /\ round' = (IF DrainActive THEN round ELSE 0)
     /\ UNCHANGED exceptWS

\* useStockUpdates: Promise.all(symbols.map(symbol => websocketService.subscribe(symbol)))
SubscribeToSymbols(ss) ==
  LET q1 == SetAdd(subscriptionQueue, Head(ss))
      b  == Batch(q1)
  IN /\ calls < MaxCalls
     /\ calls' = calls + 1
     /\ subscriptionQueue' = SetAddAll(subscriptionQueue, ss)
     /\ unsubscribed' = unsubscribed \ Range(ss)
     /\ exhausted' = exhausted \ Range(ss)
     /\ cancelled' = cancelled \ Range(ss)
     /\ delays' = 0
     /\ IF DrainActive
          THEN /\ burstN' = 0
               /\ batches' = <<>>
               /\ UNCHANGED <<connections, reconnectAttemptsMap, live, processingQueue,
                              workers>>
          ELSE /\ processingQueue' = TRUE
               /\ ConnectAll(Range(b))
               /\ workers' = Append(workers,
                     [pc |-> "await", batch |-> b, failed |-> BatchFailed(b)])
               /\ batches' = <<Len(b)>>
               /\ burstN' = Len(ss)
     /\ UNCHANGED <<closing, timers, bad>>
     /\ round' = (IF DrainActive THEN round ELSE 0)
     /\ UNCHANGED exceptWS

\* processSubscriptionQueue resumes after `await Promise.all(promises)`
WorkerResume(i) ==
  LET w  == workers[i]
      q2 == AfterBatch(subscriptionQueue, w.batch, w.failed)
  IN /\ w.pc = "await"
     /\ subscriptionQueue' = q2
     /\ IF Len(q2) > 0
          THEN /\ workers' = [workers EXCEPT ![i].pc = "delay"]
               /\ delays' = Delayed(delays)
               /\ UNCHANGED processingQueue
          ELSE /\ workers' = RemoveAt(workers, i)
               /\ processingQueue' = FALSE
               /\ UNCHANGED delays
     /\ UNCHANGED <<connections, reconnectAttemptsMap, live, closing, timers, bad,
                    unsubscribed, exhausted, batches, burstN, calls>>
     /\ UNCHANGED <<round, cancelled, exceptWS>>

\* the inter-batch setTimeout fires: next loop iteration, run through its
\* microtask continuation (nothing else can run in between)
DelayFire(i) ==
  LET w  == workers[i]
      b  == Batch(subscriptionQueue)
      q2 == AfterBatch(subscriptionQueue, b, BatchFailed(b))
  IN /\ w.pc = "delay"
     /\ NoMicrotask
     /\ IF Len(subscriptionQueue) = 0
          THEN /\ workers' = RemoveAt(workers, i)
               /\ processingQueue' = FALSE
               /\ UNCHANGED <<connections, reconnectAttemptsMap, live,
                              subscriptionQueue, batches, delays>>
          ELSE /\ ConnectAll(Range(b))
               /\ batches' = Recorded(batches, Len(b))
               /\ subscriptionQueue' = q2
               /\ IF Len(q2) > 0
                    THEN /\ workers' = [workers EXCEPT ![i] =
                               [pc |-> "delay", batch |-> b, failed |-> BatchFailed(b)]]
                         /\ delays' = Delayed(delays)
                         /\ UNCHANGED processingQueue
                    ELSE /\ workers' = RemoveAt(workers, i)
                         /\ processingQueue' = FALSE
                         /\ UNCHANGED delays
     /\ UNCHANGED <<closing, timers, bad, unsubscribed, exhausted, burstN, calls>>
     /\ round' = (IF Len(subscriptionQueue) = 0 THEN round ELSE 1 - round)
     /\ UNCHANGED <<cancelled, exceptWS>>

\* the browser moves a registered socket to OPEN
SocketOpen(s) ==
  /\ NoMicrotask
  /\ connections[s] = "connecting"
  /\ connections' = [connections EXCEPT ![s] = "open"]
  /\ UNCHANGED <<reconnectAttemptsMap, subscriptionQueue, processingQueue, workers,
                 closing, timers, bad, live, unsubscribed, exhausted, batches,
                 delays, burstN, calls>>
  /\ UNCHANGED <<round, cancelled, exceptWS>>

\* the registered socket of s fails or is closed by the remote end:
\* ws.onclose -> handleDisconnection(s) up to its await
SocketClose(s) ==
  /\ NoMicrotask
  /\ IsLive(connections[s])
  /\ live' = [live EXCEPT ![s] = @ - 1]
  /\ IF Attempts(s) < reconnectAttempts
       THEN /\ connections' = [connections EXCEPT ![s] = "closed"]
            /\ reconnectAttemptsMap' = [reconnectAttemptsMap EXCEPT ![s] = Attempts(s) + 1]
            /\ timers' = [timers EXCEPT ![s] = @ + 1]
            /\ UNCHANGED exhausted
       ELSE \* unsubscribe(s): close() on the CLOSED socket is a no-op
            /\ connections' = [connections EXCEPT ![s] = "none"]
            /\ reconnectAttemptsMap' = [reconnectAttemptsMap EXCEPT ![s] = NoEntry]
            /\ exhausted' = exhausted \cup {s}
            /\ UNCHANGED timers
  /\ UNCHANGED <<subscriptionQueue, processingQueue, workers, closing, bad,
                 unsubscribed, batches, delays, burstN, calls>>
  /\ UNCHANGED <<round, cancelled, exceptWS>>

\* the close event of a socket that unsubscribe() closed and dropped:
\* ws.onclose -> handleDisconnection(s) up to its await
StaleClose(s) ==
  /\ NoMicrotask
  /\ closing[s] > 0
  /\ IF Attempts(s) < reconnectAttempts
       THEN /\ reconnectAttemptsMap' = [reconnectAttemptsMap EXCEPT ![s] = Attempts(s) + 1]
            /\ timers' = [timers EXCEPT ![s] = @ + 1]
            /\ closing' = [closing EXCEPT ![s] = @ - 1]
            /\ UNCHANGED <<connections, live, exhausted>>
       ELSE \* unsubscribe(s) on whatever socket is registered now
            /\ connections' = [connections EXCEPT ![s] = "none"]
            /\ reconnectAttemptsMap' = [reconnectAttemptsMap EXCEPT ![s] =
                  IF HasConnection(s) THEN NoEntry ELSE @]
            /\ closing' = [closing EXCEPT ![s] =
                  IF IsLive(connections[s]) THEN @ ELSE @ - 1]
            /\ live' = [live EXCEPT ![s] = IF IsLive(connections[s]) THEN @ - 1 ELSE @]
            /\ exhausted' = exhausted \cup {s}
            /\ UNCHANGED timers
  /\ UNCHANGED <<subscriptionQueue, processingQueue, workers, bad,
                 unsubscribed, batches, delays, burstN, calls>>
  /\ UNCHANGED <<round, cancelled, exceptWS>>

\* handleDisconnection resumes after the reconnect delay: connectToSymbol(s)
ReconnectTimer(s) ==
  /\ NoMicrotask
  /\ timers[s] > 0
  /\ timers' = [timers EXCEPT ![s] = @ - 1]
  /\ ConnectAll({s})
  /\ UNCHANGED <<subscriptionQueue, processingQueue, workers, closing, bad,
                 unsubscribed, exhausted, batches, delays, burstN, calls>>
  /\ UNCHANGED <<round, cancelled, exceptWS>>

\* state after unsubscribe(s) has run for every symbol of U
UnsubscribeSet(U) ==
  /\ connections' = [s \in Symbols |-> IF s \in U THEN "none" ELSE connections[s]]
  /\ reconnectAttemptsMap' = [s \in Symbols |->
        IF s \in U /\ HasConnection(s) THEN NoEntry ELSE reconnectAttemptsMap[s]]
  /\ closing' = [s \in Symbols |->
        IF s \in U /\ IsLive(connections[s]) THEN closing[s] + 1 ELSE closing[s]]
  /\ live' = [s \in Symbols |->
        IF s \in U /\ IsLive(connections[s]) THEN live[s] - 1 ELSE live[s]]
  /\ unsubscribed' = unsubscribed \cup {s \in U : connections[s] = "open"}

\* unsubscribe(symbol): `if (connection)` guards the whole body, and the
\* body never touches subscriptionQueue
Unsubscribe(s) ==
  /\ calls < MaxCalls
  /\ UnsubscribeSet({s})
  /\ calls' = calls + 1
  /\ cancelled' = (IF ~HasConnection(s) /\ s \in Range(subscriptionQueue)
                     THEN cancelled \cup {s} ELSE cancelled)
  /\ UNCHANGED <<subscriptionQueue, processingQueue, workers, timers, bad,
                 exhausted, batches, delays, burstN>>
  /\ UNCHANGED <<round, exceptWS>>

\* unsubscribeAll()
UnsubscribeAll ==
  /\ calls < MaxCalls
  /\ \E s \in Symbols : HasConnection(s)
  /\ UnsubscribeSet({s \in Symbols : HasConnection(s)})
  /\ calls' = calls + 1
  /\ UNCHANGED <<subscriptionQueue, processingQueue, workers, timers, bad,
                 exhausted, batches, delays, burstN>>
  /\ UNCHANGED <<round, cancelled, exceptWS>>

\* ------------------------------------------- DataService.getHistoricalData
maxRetries == 3
DefaultRateLimitWait == 10000
BackoffBase == 1000
BackoffCap == 10000

\* const cacheDuration = 60 * 60 * 1000
cacheDuration == 60 * 60 * 1000

\* node-cache reads the ttl argument of set(key, value, ttl) in seconds and
\* get() drops an entry once that many seconds have passed (age in seconds)
Expired(age, ttl) == age > ttl

\* one hour, in seconds
Hour == 60 * 60

\* idle periods between two calls, in seconds: just over an hour, just over
\* cacheDuration seconds
IdleSteps == {Hour + 1, cacheDuration + 1}

NoCache == << <<>> >>
NoHeader == -1
HttpDate == -2

\* values of the Retry-After header of a 429: absent, an HTTP date, seconds
RetryAfterValues == {NoHeader, HttpDate, 0, 2}

\* Math.random() * 1000
Jitters == {0, 999}

\* a bar of the upstream payload: its timestamp and what its fields are
\* ("num" finite numbers, "inf" a number JSON.parse read as Infinity,
\*  "str" some field is not a number)
Bars == [t : 1..2, f : {"num", "inf", "str"}]

Payloads == {<<>>} \cup {<<b>> : b \in Bars}
              \cup {<<b1, b2>> : b1 \in {b \in Bars : b.f # "inf"}, b2 \in {b \in Bars : b.t = 1}}

\* typeof x === 'number'
IsNumber(f) == f \in {"num", "inf"}

\* response.data.results.filter(bar => bar && typeof bar.t === 'number' && ...)
ValidBars(rs) == SelectSeq(rs, LAMBDA b : IsNumber(b.f))

InsertBar_Back(sorted, b) == Append(sorted, b)

\* insert b behind every bar whose timestamp is not larger (stable)
RECURSIVE InsertBar(_, _)
InsertBar(sorted, b) ==
  IF sorted = <<>> THEN <<b>>
  ELSE IF Head(sorted).t <= b.t THEN <<Head(sorted)>> \o InsertBar(Tail(sorted), b)
  ELSE <<b>> \o sorted

\* validBars.sort((a, b) => a.t - b.t)
RECURSIVE SortBars(_)
SortBars(rs) ==
  IF rs = <<>> THEN <<>>
  ELSE InsertBar(SortBars(SubSeq(rs, 1, Len(rs) - 1)), rs[Len(rs)])

\* JSON.stringify(historicalData): a non-finite number is written as null
Stringify(bs) ==
  [i \in 1..Len(bs) |-> <<bs[i].t, IF bs[i].f = "inf" THEN "null" ELSE bs[i].f>>]

\* JSON.parse(cachedData)
Parse(text) == [i \in 1..Len(text) |-> [t |-> text[i][1], f |-> text[i][2]]]

RateLimitWait_NoScale(ra) ==
  IF ra = NoHeader THEN DefaultRateLimitWait ELSE IF ra = HttpDate THEN 0 ELSE ra

\* interceptor: retryAfter ? parseInt(retryAfter) * 1000 : 10000
\* (parseInt of an HTTP date is NaN and setTimeout(NaN) fires at once)
RateLimitWait(ra) ==
  IF ra = NoHeader THEN DefaultRateLimitWait ELSE IF ra = HttpDate THEN 0 ELSE ra * 1000

Backoff_Fixed(k) == Min(BackoffBase, BackoffCap)

\* Math.min(1000 * Math.pow(2, attempt), 10000)
Backoff(k) == Min(BackoffBase * 2^k, BackoffCap)

\* global.stockCache.get(cacheKey) returns the entry
CacheHit == cache # NoCache /\ ~Expired(cacheAge, cacheDuration)

HistoryReset ==
  /\ responses' = <<>>
  /\ receivedAt' = <<>>
  /\ waits' = <<>>
  /\ payload' = <<>>
  /\ cacheAtStart' = (IF CacheHit THEN cache ELSE NoCache)
  /\ ageAtStart' = (IF cache # NoCache THEN cacheAge ELSE 0)

Received(kind, ra) ==
  /\ responses' = Append(responses, [kind |-> kind, ra |-> ra])
  /\ receivedAt' = Append(receivedAt, now)

\* getHistoricalData(symbol, range, interval) up to its first await
GetHistoricalData ==
  /\ hpc = "idle"
  /\ fetches < MaxFetches
  /\ fetches' = fetches + 1
  /\ HistoryReset
  /\ attempt' = 0
  /\ now' = 0
  /\ pendingWait' = 0
  /\ IF CacheHit
       THEN /\ hpc' = "done"
            /\ result' = Parse(cache)
            /\ outcome' = "returned"
            /\ requests' = 0
            /\ issuedAt' = <<>>
            /\ UNCHANGED <<cache, cacheAge, cachedSeries>>
       ELSE /\ hpc' = "request"
            /\ result' = <<>>
            /\ outcome' = "pending"
            /\ requests' = 1
            /\ issuedAt' = <<0>>
            /\ cache' = NoCache
            /\ cacheAge' = 0
            /\ cachedSeries' = <<>>
  /\ UNCHANGED idles
  /\ UNCHANGED exceptHD

\* interceptor, status 429: sleep waitTime
RateLimited(ra) ==
  /\ hpc = "request"
  /\ Received("429", ra)
  /\ hpc' = "rlwait"
  /\ pendingWait' = RateLimitWait(ra)
  /\ UNCHANGED <<attempt, now, cache, result, outcome, requests, issuedAt, waits,
                 cacheAtStart, fetches>>
  /\ UNCHANGED <<cacheAge, payload, cachedSeries, ageAtStart, idles>>
  /\ UNCHANGED exceptHD

\* interceptor: waitTime elapsed, sleep the jitter
RateLimitElapsed ==
  /\ hpc = "rlwait"
  /\ now' = now + pendingWait
  /\ hpc' = "jitter"
  /\ UNCHANGED <<attempt, pendingWait, cache, result, outcome, requests, responses,
                 issuedAt, receivedAt, waits, cacheAtStart, fetches>>
  /\ UNCHANGED <<cacheAge, payload, cachedSeries, ageAtStart, idles>>
  /\ UNCHANGED exceptHD

\* interceptor: jitter elapsed, `return this.polygon.request(error.config)`
JitterElapsed(j) ==
  /\ hpc = "jitter"
  /\ requests < MaxRequests
  /\ now' = now + j
  /\ requests' = requests + 1
  /\ issuedAt' = Append(issuedAt, now')
  /\ hpc' = "request"
  /\ UNCHANGED <<attempt, pendingWait, cache, result, outcome, responses,
                 receivedAt, waits, cacheAtStart, fetches>>
  /\ UNCHANGED <<cacheAge, payload, cachedSeries, ageAtStart, idles>>
  /\ UNCHANGED exceptHD

ReturnEmpty_Throws ==
  /\ hpc' = "done"
  /\ result' = <<>>
  /\ outcome' = "thrown"

\* getHistoricalData returns []
ReturnEmpty ==
  /\ hpc' = "done"
  /\ result' = <<>>
  /\ outcome' = "returned"

\* interceptor, status 404: the response becomes { data: { results: [] } }
NotFound ==
  /\ hpc = "request"
  /\ Received("404", NoHeader)
  /\ ReturnEmpty
  /\ UNCHANGED <<attempt, pendingWait, now, cache, requests, issuedAt, waits,
                 cacheAtStart, fetches>>
  /\ UNCHANGED <<cacheAge, payload, cachedSeries, ageAtStart, idles>>
  /\ UNCHANGED exceptHD

\* the attempt throws: the interceptor rethrows ("http": another error status,
\* "network": no response) or the body is not an object ("invalid");
\* inner catch of the retry loop
AttemptFails(kind) ==
  /\ hpc = "request"
  /\ Received(kind, NoHeader)
  /\ IF attempt < maxRetries - 1
       THEN /\ hpc' = "backoff"
            /\ pendingWait' = Backoff(attempt)
            /\ waits' = Append(waits, Backoff(attempt))
            /\ UNCHANGED <<result, outcome>>
       ELSE /\ ReturnEmpty
            /\ UNCHANGED <<pendingWait, waits>>
  /\ UNCHANGED <<attempt, now, cache, requests, issuedAt, cacheAtStart, fetches>>
  /\ UNCHANGED <<cacheAge, payload, cachedSeries, ageAtStart, idles>>
  /\ UNCHANGED exceptHD

\* the backoff elapsed: next iteration of the retry loop
BackoffElapsed ==
  /\ hpc = "backoff"
  /\ requests < MaxRequests
  /\ now' = now + pendingWait
  /\ attempt' = attempt + 1
  /\ requests' = requests + 1
  /\ issuedAt' = Append(issuedAt, now')
  /\ hpc' = "request"
  /\ UNCHANGED <<pendingWait, cache, result, outcome, responses, receivedAt, waits,
                 cacheAtStart, fetches>>
  /\ UNCHANGED <<cacheAge, payload, cachedSeries, ageAtStart, idles>>
  /\ UNCHANGED exceptHD

\* status 200 whose body has no results array
NoResults ==
  /\ hpc = "request"
  /\ Received("noResults", NoHeader)
  /\ ReturnEmpty
  /\ UNCHANGED <<attempt, pendingWait, now, cache, requests, issuedAt, waits,
                 cacheAtStart, fetches>>
  /\ UNCHANGED <<cacheAge, payload, cachedSeries, ageAtStart, idles>>
  /\ UNCHANGED exceptHD

\* status 200 with a results array: filter, sort, cache, return
BarsReceived(rs) ==
  LET historicalData == SortBars(ValidBars(rs))
  IN /\ hpc = "request"
     /\ Received("bars", NoHeader)
     /\ hpc' = "done"
     /\ outcome' = "returned"
     /\ result' = historicalData
     /\ payload' = rs
     /\ IF Len(historicalData) > 0
          THEN /\ cache' = Stringify(historicalData)
               /\ cacheAge' = 0
               /\ cachedSeries' = historicalData
          ELSE UNCHANGED <<cache, cacheAge, cachedSeries>>
     /\ UNCHANGED <<attempt, pendingWait, now, requests, issuedAt, waits,
                    cacheAtStart, fetches, ageAtStart, idles>>
     /\ UNCHANGED exceptHD

\* the caller takes the result
CallReturns ==
  /\ hpc = "done"
  /\ hpc' = "idle"
  /\ UNCHANGED <<attempt, pendingWait, now, cache, result, outcome, requests,
                 responses, issuedAt, receivedAt, waits, cacheAtStart, fetches>>
  /\ UNCHANGED <<cacheAge, payload, cachedSeries, ageAtStart, idles>>
  /\ UNCHANGED exceptHD

\* time passes between two calls
TimePasses(d) ==
  /\ hpc = "idle"
  /\ cache # NoCache
  /\ idles < MaxIdles
  /\ idles' = idles + 1
  /\ cacheAge' = cacheAge + d
  /\ UNCHANGED <<hpc, attempt, pendingWait, now, cache, result, outcome, requests,
                 responses, issuedAt, receivedAt, waits, cacheAtStart, fetches,
                 payload, cachedSeries, ageAtStart>>
  /\ UNCHANGED exceptHD

InitHD ==
  /\ hpc = "idle"
  /\ attempt = 0
  /\ pendingWait = 0
  /\ now = 0
  /\ cache = NoCache
  /\ result = <<>>
  /\ outcome = "pending"
  /\ requests = 0
  /\ responses = <<>>
  /\ issuedAt = <<>>
  /\ receivedAt = <<>>
  /\ waits = <<>>
  /\ cacheAtStart = NoCache
  /\ fetches = 0
  /\ cacheAge = 0
  /\ payload = <<>>
  /\ cachedSeries = <<>>
  /\ ageAtStart = 0
  /\ idles = 0

NextHD ==
  \/ GetHistoricalData
  \/ \E ra \in RetryAfterValues : RateLimited(ra)
  \/ RateLimitElapsed
  \/ \E j \in Jitters : JitterElapsed(j)
  \/ NotFound
  \/ \E kind \in {"http", "network", "invalid"} : AttemptFails(kind)
  \/ BackoffElapsed
  \/ NoResults
  \/ \E rs \in Payloads : BarsReceived(rs)
  \/ CallReturns
  \/ \E d \in IdleSteps : TimePasses(d)

\* ------------------------------------------ DataService.getBlueChipStocks

\* staticBlueChips, market_cap in units of 100e9
staticBlueChips ==
  << [symbol |-> "AAPL", market_cap |-> 30], [symbol |-> "MSFT", market_cap |-> 28],
     [symbol |-> "GOOGL", market_cap |-> 18], [symbol |-> "AMZN", market_cap |-> 16],
     [symbol |-> "NVDA", market_cap |-> 12], [symbol |-> "META", market_cap |-> 10],
     [symbol |-> "BRK.B", market_cap |-> 8], [symbol |-> "LLY", market_cap |-> 7],
     [symbol |-> "TSM", market_cap |-> 6], [symbol |-> "V", market_cap |-> 5] >>

\* tickers the list endpoint may name, among them a static one
Tickers == {"AAPL", "TSLA", "JPM"}

\* response.data.results of the list endpoint
TickerLists == {<<>>} \cup {<<a>> : a \in Tickers} \cup {<<a, b>> : a, b \in Tickers}

\* results.market_cap of the details endpoint: below, between and above the
\* static ones
MarketCaps == {2, 29, 40}

SymbolsOf(list) == {list[i].symbol : i \in 1..Len(list)}

\* blueChipStocks.some(existing => existing.symbol === stock.ticker): continue
RECURSIVE SkipKnown(_, _)
SkipKnown(todo, list) ==
  IF todo = <<>> THEN <<>>
  ELSE IF Head(todo) \in SymbolsOf(list) THEN SkipKnown(Tail(todo), list)
  ELSE todo

\* insert x behind every entry whose market_cap is not smaller (stable)
RECURSIVE InsertByCap(_, _)
InsertByCap(sorted, x) ==
  IF sorted = <<>> THEN <<x>>
  ELSE IF Head(sorted).market_cap >= x.market_cap
         THEN <<Head(sorted)>> \o InsertByCap(Tail(sorted), x)
  ELSE <<x>> \o sorted

\* blueChipStocks.sort((a, b) => b.market_cap - a.market_cap)
RECURSIVE SortByCap(_)
SortByCap(list) ==
  IF list = <<>> THEN <<>>
  ELSE InsertByCap(SortByCap(SubSeq(list, 1, Len(list) - 1)), list[Len(list)])

\* JSON.stringify(blueChipStocks)
StringifyList(list) == [i \in 1..Len(list) |-> <<list[i].symbol, list[i].market_cap>>]

\* JSON.parse(cachedData)
ParseList(text) == [i \in 1..Len(text) |-> [symbol |-> text[i][1], market_cap |-> text[i][2]]]

\* getBlueChipStocks() up to its first await
GetBlueChipStocks ==
  /\ bpc = "idle"
  /\ bcCalls < MaxBcCalls
  /\ bcCalls' = bcCalls + 1
  /\ bcListFailed' = FALSE
  /\ bcLimited' = FALSE
  /\ bcTodo' = <<>>
  /\ bcBack' = "list"
  /\ IF bcCache # NoCache
       THEN /\ bpc' = "done"
            /\ bcResult' = ParseList(bcCache)
            /\ UNCHANGED blueChipStocks
       ELSE /\ bpc' = "list"
            /\ blueChipStocks' = staticBlueChips
            /\ UNCHANGED bcResult
  /\ UNCHANGED bcCache
  /\ UNCHANGED exceptBC

\* return blueChipStocks
ReturnList(list) ==
  /\ bpc' = "done"
  /\ bcResult' = list

\* the for loop reaches its next stock that is not in the list yet, or ends
NextStock(todo, list) ==
  /\ bcTodo' = SkipKnown(todo, list)
  /\ IF SkipKnown(todo, list) = <<>>
       THEN ReturnList(list)
       ELSE bpc' = "delay" /\ UNCHANGED bcResult

\* interceptor, status 429 on either endpoint: wait
BcRateLimited ==
  /\ bpc \in {"list", "details"}
  /\ bcBack' = bpc
  /\ bpc' = "rlwait"
  /\ bcLimited' = (bcLimited \/ bpc = "list")
  /\ UNCHANGED <<blueChipStocks, bcTodo, bcCache, bcResult, bcListFailed, bcCalls>>
  /\ UNCHANGED exceptBC

\* the interceptor's first timer fired: jitter timer
BcRateLimitElapsed ==
  /\ bpc = "rlwait"
  /\ bpc' = "jitter"
  /\ UNCHANGED <<bcBack, blueChipStocks, bcTodo, bcCache, bcResult, bcListFailed,
                 bcLimited, bcCalls>>
  /\ UNCHANGED exceptBC

\* the jitter timer fired: this.polygon.request(error.config)
BcJitterElapsed ==
  /\ bpc = "jitter"
  /\ bpc' = bcBack
  /\ UNCHANGED <<bcBack, blueChipStocks, bcTodo, bcCache, bcResult, bcListFailed,
                 bcLimited, bcCalls>>
  /\ UNCHANGED exceptBC

\* the list request throws (another error status, no response): inner catch
ListFails ==
  /\ bpc = "list"
  /\ bcListFailed' = TRUE
  /\ ReturnList(blueChipStocks)
  /\ UNCHANGED <<bcBack, blueChipStocks, bcTodo, bcCache, bcLimited, bcCalls>>
  /\ UNCHANGED exceptBC

\* the list request resolves: 404 (results: []), a body without results, or
\* a results array
ListReceived(results) ==
  /\ bpc = "list"
  /\ NextStock(results, blueChipStocks)
  /\ UNCHANGED <<bcBack, blueChipStocks, bcCache, bcListFailed, bcLimited, bcCalls>>
  /\ UNCHANGED exceptBC

\* await delay(2000) is over: the details request is issued
BcDelayElapsed ==
  /\ bpc = "delay"
  /\ bpc' = "details"
  /\ UNCHANGED <<bcBack, blueChipStocks, bcTodo, bcCache, bcResult, bcListFailed,
                 bcLimited, bcCalls>>
  /\ UNCHANGED exceptBC

\* the details request resolves with a market_cap: push, sort, cache
DetailsReceived(cap) ==
  LET newStock == [symbol |-> Head(bcTodo), market_cap |-> cap]
      list == IF newStock.symbol \in SymbolsOf(blueChipStocks)
                THEN blueChipStocks
                ELSE SortByCap(Append(blueChipStocks, newStock))
  IN /\ bpc = "details"
     /\ blueChipStocks' = list
     /\ bcCache' = IF newStock.symbol \in SymbolsOf(blueChipStocks)
                     THEN bcCache ELSE StringifyList(list)
     /\ NextStock(Tail(bcTodo), list)
     /\ UNCHANGED <<bcBack, bcListFailed, bcLimited, bcCalls>>
     /\ UNCHANGED exceptBC

\* the details request resolves without a market_cap (404 among them) or
\* throws (the catch warns): the loop goes on with the next stock
DetailsSkipped ==
  /\ bpc = "details"
  /\ NextStock(Tail(bcTodo), blueChipStocks)
  /\ UNCHANGED <<bcBack, blueChipStocks, bcCache, bcListFailed, bcLimited, bcCalls>>
  /\ UNCHANGED exceptBC

\* the caller takes the list
BcReturns ==
  /\ bpc = "done"
  /\ bpc' = "idle"
  /\ UNCHANGED <<bcBack, blueChipStocks, bcTodo, bcCache, bcResult, bcListFailed,
                 bcLimited, bcCalls>>
  /\ UNCHANGED exceptBC

InitBC ==
  /\ bpc = "idle"
  /\ bcBack = "list"
  /\ blueChipStocks = <<>>
  /\ bcTodo = <<>>
  /\ bcCache = NoCache
  /\ bcResult = <<>>
  /\ bcListFailed = FALSE
  /\ bcLimited = FALSE
  /\ bcCalls = 0

NextBC ==
  \/ GetBlueChipStocks
  \/ BcRateLimited
  \/ BcRateLimitElapsed
  \/ BcJitterElapsed
  \/ ListFails
  \/ \E results \in TickerLists : ListReceived(results)
  \/ BcDelayElapsed
  \/ \E cap \in MarketCaps : DetailsReceived(cap)
  \/ DetailsSkipped
  \/ BcReturns

\* --------------------------------------------------- scanBlueChipStocks
\* Prices are in cents; gains are in thousandths of a percent and scores in
\* thousandths.

NaN == -1000000

\* symbols of a scan request
ScanSymbols == {"AAPL", "MSFT"}

\* req.body.symbols: a symbol may occur twice
ScanLists == {<<>>} \cup {<<a>> : a \in ScanSymbols} \cup {<<a, b>> : a, b \in ScanSymbols}

\* min_gain_potential = 5.0
DefaultMinGain == 5000

\* confidence > 0.5
ConfidenceMin == 500

MinGains == {DefaultMinGain, 10000}

\* what the series of a symbol leads to: reading the current price raises
\* (no prices, or a last price that is not a number), or the handler computes
\* a current price, a predicted price and a confidence
Analyses ==
  {[kind |-> "raises"]} \cup
  [kind : {"ok"}, currentPrice : {10000}, trendPrediction : {10499, 10500, 11200},
   confidence : {NaN, 500, 503, 506}]

\* Number(x.toFixed(2)) of a value in thousandths
ToFixed2(x) == ((x + 5) \div 10) * 10

Null == [kind |-> "null"]
Thrown == [kind |-> "thrown"]

\* ((trendPrediction - currentPrice) / currentPrice) * 100
PotentialGain(d) == ((d.trendPrediction - d.currentPrice) * 100000) \div d.currentPrice

\* body of the try block of one symbol
SymbolBody(symbol, d, min) ==
  IF d.kind = "raises" THEN Thrown
  ELSE IF PotentialGain(d) >= min /\ d.confidence # NaN /\ d.confidence > ConfidenceMin
    THEN [kind |-> "opportunity",
          symbol |-> symbol,
          current_price |-> d.currentPrice,
          target_price |-> d.trendPrediction,
          potential_gain |-> ToFixed2(PotentialGain(d)),
          confidence |-> ToFixed2(d.confidence)]
  ELSE Null

ProcessSymbol_NoCatch(symbol, d, min) == SymbolBody(symbol, d, min)

\* symbols.map callback: the catch logs and returns null
ProcessSymbol(symbol, d, min) ==
  IF SymbolBody(symbol, d, min) = Thrown THEN Null ELSE SymbolBody(symbol, d, min)

InsertByGain_Back(sorted, x) == Append(sorted, x)

\* insert x behind every opportunity whose potential_gain is not smaller
RECURSIVE InsertByGain(_, _)
InsertByGain(sorted, x) ==
  IF sorted = <<>> THEN <<x>>
  ELSE IF Head(sorted).potential_gain >= x.potential_gain
         THEN <<Head(sorted)>> \o InsertByGain(Tail(sorted), x)
  ELSE <<x>> \o sorted

\* .sort((a, b) => b.potential_gain - a.potential_gain)
RECURSIVE SortByGain(_)
SortByGain(opps) ==
  IF opps = <<>> THEN <<>>
  ELSE InsertByGain(SortByGain(SubSeq(opps, 1, Len(opps) - 1)), opps[Len(opps)])

\* await Promise.all(symbols.map(...))
Opportunities(symbols, data, min) ==
  [i \in 1..Len(symbols) |-> ProcessSymbol(symbols[i], data[symbols[i]], min)]

\* opportunities.filter(opp => opp !== null).sort(...)
ValidOpportunities(symbols, data, min) ==
  SortByGain(SelectSeq(Opportunities(symbols, data, min), LAMBDA o : o # Null))

\* scanBlueChipStocks(req, res) with a symbols array and historical_data
ScanBlueChipStocks(symbols, data, min) ==
  /\ spc = "idle"
  /\ spc' = "done"
  /\ scSymbols' = symbols
  /\ scData' = data
  /\ scMin' = min
  /\ IF \E i \in 1..Len(symbols) : Opportunities(symbols, data, min)[i] = Thrown
       THEN scStatus' = 500 /\ scOpps' = <<>>
       ELSE scStatus' = 200 /\ scOpps' = ValidOpportunities(symbols, data, min)
  /\ UNCHANGED exceptSC

\* scanBlueChipStocks(req, res) without a symbols array or historical_data
ScanInvalid ==
  /\ spc = "idle"
  /\ spc' = "done"
  /\ scStatus' = 400
  /\ scOpps' = <<>>
  /\ UNCHANGED <<scSymbols, scData, scMin>>
  /\ UNCHANGED exceptSC

\* the response was sent
ScanResponds ==
  /\ spc = "done"
  /\ spc' = "idle"
  /\ scSymbols' = <<>>
  /\ scData' = [s \in ScanSymbols |-> [kind |-> "raises"]]
  /\ scMin' = DefaultMinGain
  /\ scOpps' = <<>>
  /\ UNCHANGED scStatus
  /\ UNCHANGED exceptSC

InitSC ==
  /\ spc = "idle"
  /\ scSymbols = <<>>
  /\ scData = [s \in ScanSymbols |-> [kind |-> "raises"]]
  /\ scMin = DefaultMinGain
  /\ scOpps = <<>>
  /\ scStatus = 0

NextSC ==
  \/ \E symbols \in ScanLists, data \in [ScanSymbols -> Analyses], min \in MinGains :
       ScanBlueChipStocks(symbols, data, min)
  \/ ScanInvalid
  \/ ScanResponds

\* ------------------------------------- BlueChipScanner, useStockUpdates
\* Prices are in cents; gains are in thousandths of a percent.

UiSymbols == {"AAPL", "MSFT"}

\* message.symbol: the symbols of the opportunities and one more
MessageSymbols == UiSymbols \cup {"TSLA"}

\* update.price
Prices == {9000, 10500}

\* an Opportunity of the last scan
Opportunity(symbol) ==
  [symbol |-> symbol, potential_gain |-> 5000, confidence |-> 600,
   target_price |-> 10500, current_price |-> 10000, volatility |-> 20,
   market_correlation |-> 0]

\* the opportunities state when the updates start
OpportunityLists ==
  {<<>>} \cup {<<Opportunity(a)>> : a \in UiSymbols}
         \cup {<<Opportunity(a), Opportunity(b)>> : a, b \in UiSymbols}

\* no trade or quote message for the symbol yet
NoPrice == 0

\* a field the object does not have: reading it gives undefined
Absent == -1

MapSet_KeepFirst(map, update) ==
  IF \E i \in 1..Len(map) : map[i].symbol = update.symbol THEN map ELSE Append(map, update)

\* newUpdates.set(message.symbol, update): a known key keeps its position
MapSet(map, update) ==
  IF \E i \in 1..Len(map) : map[i].symbol = update.symbol
    THEN [i \in 1..Len(map) |-> IF map[i].symbol = update.symbol THEN update ELSE map[i]]
    ELSE Append(map, update)

OnUpdate_PriceOnly(opps, update) ==
  [i \in 1..Len(opps) |->
     IF opps[i].symbol = update.symbol
       THEN [opps[i] EXCEPT !.current_price = update.price]
       ELSE opps[i]]

\* onUpdate: setOpportunities(prev => prev.map(...))
OnUpdate(opps, update) ==
  [i \in 1..Len(opps) |->
     IF opps[i].symbol = update.symbol
       THEN [opps[i] EXCEPT
               !.current_price = update.price,
               !.potential_gain =
                  IF update.price = Absent THEN NaN
                  ELSE ((opps[i].target_price - update.price) * 100000) \div update.price]
       ELSE opps[i]]

\* batchedUpdates.forEach(update => onUpdate(update))
RECURSIVE ForEachOnUpdate(_, _)
ForEachOnUpdate(opps, batch) ==
  IF batch = <<>> THEN opps
  ELSE ForEachOnUpdate(OnUpdate(opps, Head(batch)), Tail(batch))

\* updateInterval, in the time unit of the model (half intervals)
updateInterval == 2

\* the batch effect runs again after a render that changed one of its
\* dependencies: clearInterval, then setInterval from zero
Rearmed == 0

\* processMessage(message) for a trade or quote of symbol s
ProcessMessage(s, price) ==
  LET update == [symbol |-> s, price |-> price]
  IN /\ messages < MaxMessages
     /\ messages' = messages + 1
     /\ updates' = MapSet(updates, update)
     /\ fresh' = fresh \cup {s}
     /\ latestOf' = [latestOf EXCEPT ![s] = price]
     /\ IF ~batchUpdates
          THEN /\ opportunities' = OnUpdate(opportunities, update)
               /\ delivered' = <<update>>
               /\ oppsBefore' = opportunities
               /\ onUpdateCalls' = onUpdateCalls + 1
          ELSE UNCHANGED <<opportunities, delivered, oppsBefore, onUpdateCalls>>
     /\ elapsed' = Rearmed
     /\ waiting' = (IF fresh = {} THEN 0 ELSE waiting)
     /\ UNCHANGED <<batchUpdates, hookError, freshAtFlush, latestAtFlush, flushes,
                    errors>>
     /\ UNCHANGED exceptUI

\* processMessage(message) for a message of type 'error'
ProcessError ==
  /\ messages < MaxMessages
  /\ messages' = messages + 1
  /\ hookError' = TRUE
  /\ errors' = errors + 1
  /\ elapsed' = (IF hookError THEN elapsed ELSE Rearmed)
  /\ UNCHANGED <<opportunities, updates, batchUpdates, fresh, freshAtFlush,
                 latestAtFlush, delivered, oppsBefore, flushes, latestOf,
                 onUpdateCalls, waiting>>
  /\ UNCHANGED exceptUI

\* the setInterval callback of the batch effect
Flush ==
  /\ batchUpdates
  /\ elapsed = updateInterval
  /\ flushes < MaxFlushes
  /\ elapsed' = Rearmed
  /\ waiting' = 0
  /\ flushes' = flushes + 1
  /\ delivered' = updates
  /\ oppsBefore' = opportunities
  /\ opportunities' = ForEachOnUpdate(opportunities, updates)
  /\ freshAtFlush' = fresh
  /\ latestAtFlush' = updates
  /\ fresh' = {}
  /\ onUpdateCalls' = onUpdateCalls + Len(updates)
  /\ UNCHANGED <<updates, batchUpdates, hookError, messages, latestOf, errors>>
  /\ UNCHANGED exceptUI

\* half an updateInterval passes without the interval firing
HalfIntervalPasses ==
  /\ batchUpdates
  /\ elapsed < updateInterval
  /\ elapsed' = elapsed + 1
  /\ waiting' = (IF fresh = {} THEN 0 ELSE Min(waiting + 1, MaxWaiting))
  /\ UNCHANGED <<opportunities, updates, batchUpdates, hookError, fresh, freshAtFlush,
                 latestAtFlush, delivered, oppsBefore, flushes, messages, latestOf,
                 errors, onUpdateCalls>>
  /\ UNCHANGED exceptUI

InitUI ==
  /\ opportunities \in OpportunityLists
  /\ updates = <<>>
  /\ batchUpdates \in BOOLEAN
  /\ hookError = FALSE
  /\ fresh = {}
  /\ freshAtFlush = {}
  /\ latestAtFlush = <<>>
  /\ delivered = <<>>
  /\ oppsBefore = opportunities
  /\ flushes = 0
  /\ messages = 0
  /\ latestOf = [s \in MessageSymbols |-> NoPrice]
  /\ errors = 0
  /\ onUpdateCalls = 0
  /\ elapsed = 0
  /\ waiting = 0

\* the state of the component while the other specifications run
InitUIFixed == InitUI /\ opportunities = <<>> /\ batchUpdates

NextUI ==
  \/ \E s \in MessageSymbols, price \in Prices : ProcessMessage(s, price)
  \/ ProcessError
  \/ Flush
  \/ HalfIntervalPasses

\* ------------------------------------------- ws.onmessage, ws.onerror

Listeners == {"hookA", "hookB"}

\* JSON.parse(event.data): null, or an object with an optional type and
\* optional p and price fields
Frames ==
  {[json |-> "null"]} \cup
  [json : {"object"}, type : {"none", "trade", "error"}, p : {Absent, 0, 5},
   price : {Absent, 0, 7}]

NoFrame == [json |-> "none"]
NoMessage == [type |-> "none"]

\* a value that JavaScript treats as true in a condition
Truthy(x) == x # Absent /\ x # 0

\* determineMessageType(data)
DetermineMessageType(data) ==
  IF data.type = "error" THEN "error"
  ELSE IF Truthy(data.p) \/ Truthy(data.price) THEN "trade"
  ELSE "quote"

\* messageSubject.next(message): every current observer gets it once
SubjectNext(message) ==
  /\ lastMessage' = message
  /\ got' = [l \in Listeners |-> IF l \in listeners THEN 1 ELSE 0]

\* ws.onmessage for symbol s: reading data.type of null throws inside the
\* try block and the catch only logs
OnMessage(s, data) ==
  /\ frames < MaxFrames
  /\ frames' = frames + 1
  /\ lastFrame' = data
  /\ listenersAt' = listeners
  /\ IF data.json = "null"
       THEN /\ lastMessage' = NoMessage
            /\ got' = [l \in Listeners |-> 0]
       ELSE SubjectNext([type |-> DetermineMessageType(data), symbol |-> s, data |-> data])
  /\ UNCHANGED listeners
  /\ UNCHANGED exceptMS

\* ws.onerror for symbol s
OnError(s) ==
  /\ frames < MaxFrames
  /\ frames' = frames + 1
  /\ lastFrame' = NoFrame
  /\ listenersAt' = listeners
  /\ SubjectNext([type |-> "error", symbol |-> s, data |-> NoFrame])
  /\ UNCHANGED listeners
  /\ UNCHANGED exceptMS

\* websocketService.messages.subscribe(...) of a mounting hook
Listen(l) ==
  /\ l \notin listeners
  /\ listeners' = listeners \cup {l}
  /\ UNCHANGED <<lastFrame, lastMessage, listenersAt, got, frames>>
  /\ UNCHANGED exceptMS

\* subscription.unsubscribe() of the hook's cleanup
Unlisten(l) ==
  /\ l \in listeners
  /\ listeners' = listeners \ {l}
  /\ UNCHANGED <<lastFrame, lastMessage, listenersAt, got, frames>>
  /\ UNCHANGED exceptMS

InitMS ==
  /\ listeners = {}
  /\ lastFrame = NoFrame
  /\ lastMessage = NoMessage
  /\ listenersAt = {}
  /\ got = [l \in Listeners |-> 0]
  /\ frames = 0

NextMS ==
  \/ \E s \in Symbols, data \in Frames : OnMessage(s, data)
  \/ \E s \in Symbols : OnError(s)
  \/ \E l \in Listeners : Listen(l)
  \/ \E l \in Listeners : Unlisten(l)

\* ------------------------------------------------------ scoring functions
\* Numbers are fixed point, in hundredths (Scale); squares are in Scale^2.
\* NaN is the result of 0 / 0 and of every operation on NaN.

Scale == 100

\* x / 0 for x # 0
Infinity == 2000000

PriceValues == {100, 110, 200, 400}
MarketValues == {100, 110, 200}

\* sequences over S of length at most n
SeqsUpTo(S, n) == UNION {[1..k -> S] : k \in 0..n}

\* n / d for two numbers of the same unit
Ratio(n, d) ==
  IF n = NaN \/ d = NaN THEN NaN
  ELSE IF d = 0 THEN (IF n = 0 THEN NaN ELSE Infinity)
  ELSE (n * Scale) \div d

\* x / n for a count n
Over(x, n) ==
  IF x = NaN THEN NaN
  ELSE IF n = 0 THEN (IF x = 0 THEN NaN ELSE Infinity)
  ELSE x \div n

\* Math.sqrt(x)
Sqrt(x) ==
  IF x = NaN \/ x < 0 THEN NaN
  ELSE CHOOSE r \in 0..1000 : r * r <= x /\ (r + 1) * (r + 1) > x

\* Math.max(0, x)
Max0(x) == IF x = NaN THEN NaN ELSE IF x > 0 THEN x ELSE 0

\* Math.abs(x)
Abs(x) == IF x = NaN THEN NaN ELSE IF x < 0 THEN 0 - x ELSE x

\* returns.push((prices[i] - prices[i-1]) / prices[i-1])
Returns(prices) ==
  [i \in 1..(Len(prices) - 1) |-> Ratio(prices[i + 1] - prices[i], prices[i])]

\* xs.reduce((a, b) => a + b, 0)
RECURSIVE Sum(_)
Sum(xs) ==
  IF xs = <<>> THEN 0
  ELSE IF Head(xs) = NaN \/ Sum(Tail(xs)) = NaN THEN NaN
  ELSE Head(xs) + Sum(Tail(xs))

\* the products (xs[i] - mx) * (ys[i] - my)
Products(xs, mx, ys, my) ==
  [i \in 1..Len(xs) |->
     IF xs[i] = NaN \/ ys[i] = NaN \/ mx = NaN \/ my = NaN THEN NaN
     ELSE (xs[i] - mx) * (ys[i] - my)]

\* calculateVolatility(prices)
CalculateVolatility(prices) ==
  IF Len(prices) = 0 THEN 0
  ELSE LET returns == Returns(prices)
           mean == Over(Sum(returns), Len(returns))
           variance == Over(Sum(Products(returns, mean, returns, mean)), Len(returns))
       IN Sqrt(variance)

\* calculateMarketCorrelation(stockPrices, marketPrices); the square root of
\* the product is taken as the product of the square roots
CalculateMarketCorrelation(stockPrices, marketPrices) ==
  IF Len(stockPrices) # Len(marketPrices) \/ Len(stockPrices) = 0 THEN 0
  ELSE LET stockReturns == Returns(stockPrices)
           marketReturns == Returns(marketPrices)
           stockMean == Over(Sum(stockReturns), Len(stockReturns))
           marketMean == Over(Sum(marketReturns), Len(marketReturns))
           numerator == Sum(Products(stockReturns, stockMean, marketReturns, marketMean))
           stockDenom == Sum(Products(stockReturns, stockMean, stockReturns, stockMean))
           marketDenom == Sum(Products(marketReturns, marketMean, marketReturns, marketMean))
       IN Ratio(numerator, Sqrt(stockDenom) * Sqrt(marketDenom))

\* calculateConsistency(prices)
CalculateConsistency(prices) ==
  IF Len(prices) < 3 THEN 0
  ELSE LET consistentMoves ==
             Cardinality({i \in 3..Len(prices) :
               \/ prices[i] - prices[i - 1] > 0 /\ prices[i - 1] - prices[i - 2] > 0
               \/ prices[i] - prices[i - 1] < 0 /\ prices[i - 1] - prices[i - 2] < 0})
       IN Ratio(consistentMoves, Len(prices) - 2)

weights == <<15, 20, 25, 35, 45>>

\* calculateTrendStrength(prices)
CalculateTrendStrength(prices) ==
  IF Len(prices) < 2 THEN 0
  ELSE LET n == Len(prices)
           k == IF n - 1 < Len(weights) THEN n - 1 ELSE Len(weights)
           changes == [i \in 1..k |->
                         (Ratio(prices[n - i + 1] - prices[n - i], prices[n - i]) * weights[i])
                           \div Scale]
           momentum ==
             IF n >= 3 /\ Ratio(prices[n] - prices[n - 1], prices[n - 1])
                            > Ratio(prices[n - 1] - prices[n - 2], prices[n - 2])
               THEN 2 ELSE 0
           weightedTrend == Sum(changes)
       IN Max0(weightedTrend * 5 + momentum)

\* trendPrediction of scanBlueChipStocks, in hundredths of the price unit
TrendPrediction(prices) ==
  IF prices = <<>> THEN NaN
  ELSE IF Len(prices) >= 2
    THEN (prices[Len(prices)] * (Scale * Scale + CalculateTrendStrength(prices) * 15)) \div Scale
  ELSE prices[Len(prices)] * 105

\* calculateConfidence(volatility, correlation, prices)
CalculateConfidence(volatility, correlation, prices) ==
  LET volatilityScore == IF volatility = NaN THEN NaN ELSE Max0(Scale - volatility * 8)
      correlationScore == Abs(correlation)
      trendScore == CalculateTrendStrength(prices)
      consistencyScore == CalculateConsistency(prices)
  IN IF NaN \in {volatilityScore, correlationScore, trendScore, consistencyScore} THEN NaN
     ELSE (volatilityScore * 20 + correlationScore * 20 + trendScore * 40
             + consistencyScore * 20) \div Scale

\* the functions are evaluated for one symbol
Calculate(prices, market) ==
  /\ cpc = "idle"
  /\ evaluations < MaxEvaluations
  /\ evaluations' = evaluations + 1
  /\ cpc' = "done"
  /\ cPrices' = prices
  /\ cMarket' = market
  /\ cVolatility' = CalculateVolatility(prices)
  /\ cTrend' = CalculateTrendStrength(prices)
  /\ cConsistency' = CalculateConsistency(prices)
  /\ cCorrelation' = CalculateMarketCorrelation(prices, market)
  /\ cConfidence' = CalculateConfidence(CalculateVolatility(prices),
                                         CalculateMarketCorrelation(prices, market), prices)
  /\ UNCHANGED exceptCL

\* the caller took the scores
CalculateReturns ==
  /\ cpc = "done"
  /\ cpc' = "idle"
  /\ cPrices' = <<>>
  /\ cMarket' = <<>>
  /\ cVolatility' = 0
  /\ cTrend' = 0
  /\ cConsistency' = 0
  /\ cCorrelation' = 0
  /\ cConfidence' = 0
  /\ UNCHANGED evaluations
  /\ UNCHANGED exceptCL

InitCL ==
  /\ cpc = "idle"
  /\ evaluations = 0
  /\ cPrices = <<>>
  /\ cMarket = <<>>
  /\ cVolatility = 0
  /\ cTrend = 0
  /\ cConsistency = 0
  /\ cCorrelation = 0
  /\ cConfidence = 0

NextCL ==
  \/ \E prices \in SeqsUpTo(PriceValues, MaxPrices), market \in SeqsUpTo(MarketValues, MaxPrices) :
       Calculate(prices, market)
  \/ CalculateReturns

\* ------------------------------ concurrent getHistoricalData on one key
Callers == {1, 2}

\* results arrays the upstream answers with
RacePayloads ==
  { <<>>,
    <<[t |-> 1, f |-> "num"]>>,
    <<[t |-> 2, f |-> "num"], [t |-> 1, f |-> "num"]>>,
    <<[t |-> 1, f |-> "str"]>>,
    <<[t |-> 2, f |-> "inf"]>> }

\* the call of c has passed its cache lookup and not returned yet
InFlight(c) == kpc[c] \in {"request", "rlwait", "jitter", "backoff"}

\* global.stockCache.set(cacheKey, value, cacheDuration): one synchronous
\* call that replaces the entry
CacheSet(old, new) == new

\* `return [];` / `return historicalData;` of caller c
KReturn(c, series) ==
  /\ kpc' = [kpc EXCEPT ![c] = "done"]
  /\ kResult' = [kResult EXCEPT ![c] = series]

\* getHistoricalData(...) of caller c up to its first await
KGetHistoricalData(c) ==
  /\ kpc[c] = "idle"
  /\ kStarts < MaxStarts
  /\ kStarts' = kStarts + 1
  /\ kAttempt' = [kAttempt EXCEPT ![c] = 0]
  /\ kPayload' = [kPayload EXCEPT ![c] = <<>>]
  /\ kLimited' = kLimited \ {c}
  /\ IF kCache # NoCache
       THEN /\ KReturn(c, Parse(kCache))
            /\ kHit' = kHit \cup {c}
            /\ UNCHANGED kRaced
       ELSE /\ kpc' = [kpc EXCEPT ![c] = "request"]
            /\ kResult' = [kResult EXCEPT ![c] = <<>>]
            /\ kHit' = kHit \ {c}
            /\ kRaced' = (kRaced \/ \E d \in Callers \ {c} : InFlight(d))
  /\ UNCHANGED <<kCache, kLastWrite, kWrites>>
  /\ UNCHANGED exceptCC

\* the request of c is answered 429: the interceptor starts its wait
KRateLimited(c) ==
  /\ kpc[c] = "request"
  /\ kpc' = [kpc EXCEPT ![c] = "rlwait"]
  /\ kLimited' = kLimited \cup {c}
  /\ UNCHANGED <<kAttempt, kCache, kResult, kPayload, kHit, kLastWrite, kWrites,
                 kRaced, kStarts>>
  /\ UNCHANGED exceptCC

\* the interceptor's first timer fired: jitter timer
KRateLimitElapsed(c) ==
  /\ kpc[c] = "rlwait"
  /\ kpc' = [kpc EXCEPT ![c] = "jitter"]
  /\ UNCHANGED <<kAttempt, kCache, kResult, kPayload, kHit, kLastWrite, kWrites,
                 kRaced, kLimited, kStarts>>
  /\ UNCHANGED exceptCC

\* the jitter timer fired: this.polygon.request(error.config)
KJitterElapsed(c) ==
  /\ kpc[c] = "jitter"
  /\ kpc' = [kpc EXCEPT ![c] = "request"]
  /\ UNCHANGED <<kAttempt, kCache, kResult, kPayload, kHit, kLastWrite, kWrites,
                 kRaced, kLimited, kStarts>>
  /\ UNCHANGED exceptCC

\* status 404 (made `results: []` by the interceptor) or a 200 without a
\* results array: return []
KNoResults(c) ==
  /\ kpc[c] = "request"
  /\ KReturn(c, <<>>)
  /\ UNCHANGED <<kAttempt, kCache, kPayload, kHit, kLastWrite, kWrites, kRaced,
                 kLimited, kStarts>>
  /\ UNCHANGED exceptCC

\* the request of c throws: catch inside the retry loop
KAttemptFails(c) ==
  /\ kpc[c] = "request"
  /\ IF kAttempt[c] < maxRetries - 1
       THEN /\ kpc' = [kpc EXCEPT ![c] = "backoff"]
            /\ UNCHANGED kResult
       ELSE KReturn(c, <<>>)
  /\ UNCHANGED <<kAttempt, kCache, kPayload, kHit, kLastWrite, kWrites, kRaced,
                 kLimited, kStarts>>
  /\ UNCHANGED exceptCC

\* the backoff timer fired: next iteration of the retry loop
KBackoffElapsed(c) ==
  /\ kpc[c] = "backoff"
  /\ kpc' = [kpc EXCEPT ![c] = "request"]
  /\ kAttempt' = [kAttempt EXCEPT ![c] = @ + 1]
  /\ UNCHANGED <<kCache, kResult, kPayload, kHit, kLastWrite, kWrites, kRaced,
                 kLimited, kStarts>>
  /\ UNCHANGED exceptCC

\* status 200 with a results array: filter, sort, cache, return
KBarsReceived(c, rs) ==
  LET historicalData == SortBars(ValidBars(rs))
  IN /\ kpc[c] = "request"
     /\ kPayload' = [kPayload EXCEPT ![c] = rs]
     /\ KReturn(c, historicalData)
     /\ IF Len(historicalData) > 0
          THEN /\ kCache' = CacheSet(kCache, Stringify(historicalData))
               /\ kLastWrite' = Stringify(historicalData)
               /\ kWrites' = kWrites \cup {Stringify(historicalData)}
          ELSE UNCHANGED <<kCache, kLastWrite, kWrites>>
     /\ UNCHANGED <<kAttempt, kHit, kRaced, kLimited, kStarts>>
     /\ UNCHANGED exceptCC

\* the caller takes the result
KCallReturns(c) ==
  /\ kpc[c] = "done"
  /\ kpc' = [kpc EXCEPT ![c] = "idle"]
  /\ UNCHANGED <<kAttempt, kCache, kResult, kPayload, kHit, kLastWrite, kWrites,
                 kRaced, kLimited, kStarts>>
  /\ UNCHANGED exceptCC

\* a step of the call of c after its cache lookup
KProgress(c) ==
  \/ KRateLimited(c)
  \/ KRateLimitElapsed(c)
  \/ KJitterElapsed(c)
  \/ KNoResults(c)
  \/ KAttemptFails(c)
  \/ KBackoffElapsed(c)
  \/ \E rs \in RacePayloads : KBarsReceived(c, rs)

InitCC ==
  /\ kpc = [c \in Callers |-> "idle"]
  /\ kAttempt = [c \in Callers |-> 0]
  /\ kCache = NoCache
  /\ kResult = [c \in Callers |-> <<>>]
  /\ kPayload = [c \in Callers |-> <<>>]
  /\ kHit = {}
  /\ kLastWrite = NoCache
  /\ kWrites = {}
  /\ kRaced = FALSE
  /\ kLimited = {}
  /\ kStarts = 0

NextCC ==
  \E c \in Callers :
    \/ KGetHistoricalData(c)
    \/ KProgress(c)
    \/ KCallReturns(c)

\* --------------------------------------------- BlueChipScanner.scanStocks
\* const batchSize = 3
scanBatchSize == 3

\* Object.keys(validHistoricalData).length >= 5
minValidForScan == 5

\* the symbols of the stock table, in its order
StockTable == [i \in 1..Len(staticBlueChips) |-> staticBlueChips[i].symbol]

\* symbols for which the scan endpoint reports an opportunity
Qualifying == {"AAPL", "GOOGL", "NVDA", "BRK.B"}

\* number of batches: for (i = 0; i < length; i += batchSize)
NumBatches(stocks) == (Len(stocks) + scanBatchSize - 1) \div scanBatchSize

\* batches[k - 1] = selectedStocks.slice(i, i + batchSize)
BatchOf(stocks, k) ==
  SubSeq(stocks, (k - 1) * scanBatchSize + 1, Min(k * scanBatchSize, Len(stocks)))

\* response.data.opportunities for the symbols sent
ScanResults(keys) == SelectSeq([i \in 1..Len(keys) |-> Opportunity(keys[i])],
                               LAMBDA o : o.symbol \in Qualifying)

\* if (!newOpps.some(existing => existing.symbol === opp.symbol)) newOpps.push(opp)
MergeOne(newOpps, opp) ==
  IF \E i \in 1..Len(newOpps) : newOpps[i].symbol = opp.symbol
    THEN newOpps
    ELSE Append(newOpps, opp)

\* scanResults.forEach(...) and the sort of the merged list
RECURSIVE MergeAll(_, _)
MergeAll(newOpps, scanResults) ==
  IF scanResults = <<>> THEN newOpps
  ELSE MergeAll(MergeOne(newOpps, Head(scanResults)), Tail(scanResults))

Merge(prev, scanResults) == SortByGain(MergeAll(prev, scanResults))

\* batchResults.forEach: the fulfilled symbols of the batch, in batch order
Fulfilled(batch, results) == SelectSeq(batch, LAMBDA s : results[s] = "fulfilled")

Rejected_ThrewOnly(batch, results) == SelectSeq(batch, LAMBDA s : results[s] = "threw")

\* batchResults.forEach: the rejected symbols of the batch, in batch order
Rejected(batch, results) == SelectSeq(batch, LAMBDA s : results[s] # "fulfilled")

DelayFollows_Always(k, n) == TRUE

\* if (batches.indexOf(batch) < batches.length - 1)
DelayFollows(k, n) == k - 1 < n - 1

\* BlueChipScanner renders again after a state change: `symbols` is a new
\* array, so the subscribe effect of useStockUpdates runs again. Its cleanup
\* calls websocketService.unsubscribe for every symbol of the previous
\* render, its body websocketService.subscribe for every symbol of this one.
Rerender(prevOpps, nextOpps) ==
  /\ unsubscribeCalls' = unsubscribeCalls + Len(prevOpps)
  /\ subscribeCalls' = subscribeCalls + Len(nextOpps)

\* no state of the component changes: no render, no effect run
NoRender == UNCHANGED <<subscribeCalls, unsubscribeCalls>>

\* a || b
Or(a, b) == IF Truthy(a) THEN a ELSE b

\* processMessage: the StockUpdate built from a trade or quote message
StockUpdateOf(message) ==
  [symbol |-> message.symbol,
   price  |-> IF message.type = "trade"
                THEN Or(message.data.p, message.data.price)
                ELSE message.data.c]

\* parsed frames of the live feed: optional p, price and c fields
TickFrames ==
  [json : {"object"}, type : {"none"}, p : {Absent, 0, 9000}, price : {Absent, 10500},
   c : {Absent, 9500}]

\* batch.map(async symbol => ...): every fetch of batch k is started
StartBatch(k) ==
  /\ batchNo' = k
  /\ inFlight' = Range(BatchOf(selectedStocks, k))
  /\ fetched' = fetched \cup Range(BatchOf(selectedStocks, k))
  /\ batchResults' = [s \in Range(StockTable) |-> "none"]
  /\ ssPc' = "fetch"

\* the code behind the batch loop, up to its await or return
AfterLoop(valid) ==
  ssPc' = (IF Len(valid) = 0 THEN "done" ELSE "final")

\* the end of a loop iteration: the delay, or the code behind the loop
EndOfIteration(valid) ==
  IF DelayFollows(batchNo, NumBatches(selectedStocks))
    THEN ssPc' = "delay"
    ELSE AfterLoop(valid)

\* scanStocks() up to its first await
ScanStocks ==
  /\ ssPc = "idle"
  /\ Len(selectedStocks) > 0
  /\ shown' = <<>>
  /\ Rerender(shown, <<>>)
  /\ StartBatch(1)
  /\ UNCHANGED <<selectedStocks, validHistoricalData, failedStocks, chunkDelays,
                 lastDelayed, mergePrev, mergeNew, merges, ticks>>
  /\ UNCHANGED exceptSS

\* the getHistoricalData promise of s settles: kind is "fulfilled", "empty"
\* (an empty array or no valid bar: the callback throws) or "threw"
FetchSettles(s, kind) ==
  /\ ssPc = "fetch"
  /\ s \in inFlight
  /\ inFlight' = inFlight \ {s}
  /\ batchResults' = [batchResults EXCEPT ![s] = kind]
  /\ NoRender
  /\ UNCHANGED <<ssPc, selectedStocks, batchNo, validHistoricalData, failedStocks,
                 shown, fetched, chunkDelays, lastDelayed, mergePrev, mergeNew,
                 merges, ticks>>
  /\ UNCHANGED exceptSS

\* Promise.allSettled(batchPromises) resolves: the accounting, then the
\* partial scan request, the delay, or the code behind the loop
BatchSettled ==
  LET batch == BatchOf(selectedStocks, batchNo)
      valid == validHistoricalData \o Fulfilled(batch, batchResults)
  IN /\ ssPc = "fetch"
     /\ inFlight = {}
     /\ validHistoricalData' = valid
     /\ failedStocks' = failedStocks \o Rejected(batch, batchResults)
     /\ IF Len(valid) >= minValidForScan
          THEN ssPc' = "scan"
          ELSE EndOfIteration(valid)
     \* finally { setLoading(false) } when the call returns here
     /\ IF ssPc' = "done" THEN Rerender(shown, shown) ELSE NoRender
     /\ UNCHANGED <<selectedStocks, batchNo, inFlight, batchResults, shown, fetched,
                    chunkDelays, lastDelayed, mergePrev, mergeNew, merges, ticks>>
     /\ UNCHANGED exceptSS

\* the partial scan request resolves: merge, then the delay or the code
\* behind the loop
PartialScanResolves ==
  LET scanResults == ScanResults(validHistoricalData)
  IN /\ ssPc = "scan"
     /\ shown' = Merge(shown, scanResults)
     /\ Rerender(shown, Merge(shown, scanResults))
     /\ mergePrev' = shown
     /\ mergeNew' = scanResults
     /\ merges' = merges + 1
     /\ EndOfIteration(validHistoricalData)
     /\ UNCHANGED <<selectedStocks, batchNo, inFlight, batchResults,
                    validHistoricalData, failedStocks, fetched, chunkDelays,
                    lastDelayed, ticks>>
     /\ UNCHANGED exceptSS

\* a scan request rejects: catch (error) of scanStocks
ScanRejects ==
  /\ ssPc \in {"scan", "final"}
  /\ ssPc' = "failed"
  /\ Rerender(shown, shown)
  /\ UNCHANGED <<selectedStocks, batchNo, inFlight, batchResults, validHistoricalData,
                 failedStocks, shown, fetched, chunkDelays, lastDelayed, mergePrev,
                 mergeNew, merges, ticks>>
  /\ UNCHANGED exceptSS

\* the inter-batch timer fires: next iteration of the loop
ChunkDelayElapsed ==
  /\ ssPc = "delay"
  /\ chunkDelays' = chunkDelays + 1
  /\ lastDelayed' = batchNo
  /\ StartBatch(batchNo + 1)
  /\ NoRender
  /\ UNCHANGED <<selectedStocks, validHistoricalData, failedStocks, shown, mergePrev,
                 mergeNew, merges, ticks>>
  /\ UNCHANGED exceptSS

\* the final scan request resolves: setOpportunities(finalScanResults)
FinalScanResolves ==
  /\ ssPc = "final"
  /\ shown' = ScanResults(validHistoricalData)
  /\ Rerender(shown, ScanResults(validHistoricalData))
  /\ ssPc' = "done"
  /\ UNCHANGED <<selectedStocks, batchNo, inFlight, batchResults, validHistoricalData,
                 failedStocks, fetched, chunkDelays, lastDelayed, mergePrev, mergeNew,
                 merges, ticks>>
  /\ UNCHANGED exceptSS

\* a frame of the live feed for s arrives while the scan runs and the next
\* flush of the hook delivers its update: processMessage, then onUpdate
ScanTick(s, data) ==
  LET message == [type |-> DetermineMessageType(data), symbol |-> s, data |-> data]
      next    == OnUpdate(shown, StockUpdateOf(message))
  IN
  /\ ssPc \in {"fetch", "scan", "delay", "final"}
  /\ ticks < MaxTicks
  /\ \E i \in 1..Len(shown) : shown[i].symbol = s
  /\ ticks' = ticks + 1
  /\ shown' = next
  /\ Rerender(shown, next)
  /\ UNCHANGED <<ssPc, selectedStocks, batchNo, inFlight, batchResults,
                 validHistoricalData, failedStocks, fetched, chunkDelays, lastDelayed,
                 mergePrev, mergeNew, merges>>
  /\ UNCHANGED exceptSS

\* no scanStocks call is running
ScanIdle ==
  /\ ssPc = "idle"
  /\ batchNo = 0
  /\ inFlight = {}
  /\ batchResults = [s \in Range(StockTable) |-> "none"]
  /\ validHistoricalData = <<>>
  /\ failedStocks = <<>>
  /\ shown = <<>>
  /\ fetched = {}
  /\ chunkDelays = 0
  /\ lastDelayed = 0
  /\ mergePrev = <<>>
  /\ mergeNew = <<>>
  /\ merges = 0
  /\ ticks = 0
  /\ subscribeCalls = 0
  /\ unsubscribeCalls = 0

\* useState<string[]>([])
InitSS == selectedStocks = <<>> /\ ScanIdle

\* the selection when Scan Now is clicked: the first n rows of the table
InitSelected ==
  /\ selectedStocks \in {SubSeq(StockTable, 1, n) : n \in 1..MaxSelected}
  /\ ScanIdle

NextSS ==
  \/ ScanStocks
  \/ \E s \in Range(StockTable), kind \in {"fulfilled", "empty", "threw"} : FetchSettles(s, kind)
  \/ BatchSettled
  \/ PartialScanResolves
  \/ ScanRejects
  \/ ChunkDelayElapsed
  \/ FinalScanResolves
  \/ \E s \in Range(StockTable), data \in TickFrames : ScanTick(s, data)

\* ------------------------------------------------------- specifications

InitAll == InitWS /\ bad = {} /\ InitHD /\ InitBC /\ InitSC /\ InitUIFixed /\ InitMS /\ InitCL /\ InitCC /\ InitSS

InitSpecHD == InitAll

SpecHD == InitSpecHD /\ [][NextHD]_vars

\* the symbol arrays the hook is mounted with
SymbolLists == {ss \in UNION {[1..n -> Symbols] : n \in 1..NumSymbols} :
                  \A i, j \in 1..Len(ss) : i # j => ss[i] # ss[j]}

NextWS ==
  \/ \E s \in Symbols : Subscribe(s)
  \/ \E ss \in SymbolLists : SubscribeToSymbols(ss)
  \/ \E i \in 1..Len(workers) : WorkerResume(i)
  \/ \E i \in 1..Len(workers) : DelayFire(i)
  \/ \E s \in Symbols : SocketOpen(s)
  \/ \E s \in Symbols : SocketClose(s)
  \/ \E s \in Symbols : StaleClose(s)
  \/ \E s \in Symbols : ReconnectTimer(s)
  \/ \E s \in Symbols : Unsubscribe(s)
  \/ UnsubscribeAll

InitSpecWS == InitWS /\ InitHD /\ InitBC /\ InitSC /\ InitUIFixed /\ InitMS /\ InitCL /\ InitCC /\ InitSS

SpecWS == InitSpecWS /\ [][NextWS]_vars

\* the scheduler runs every queued microtask and fires every armed timer
FairSpecWS ==
  /\ SpecWS
  /\ WF_vars(\E i \in 1..Len(workers) : WorkerResume(i))
  /\ WF_vars(\E i \in 1..Len(workers) : DelayFire(i))

InitSpecWSOne == InitWSOne /\ InitHD /\ InitBC /\ InitSC /\ InitUIFixed /\ InitMS /\ InitCL /\ InitCC /\ InitSS

SpecWSOne == InitSpecWSOne /\ [][NextWS]_vars

\* the scheduler runs every queued microtask and fires every armed timer
FairSpecWSOne ==
  /\ SpecWSOne
  /\ WF_vars(\E i \in 1..Len(workers) : WorkerResume(i))
  /\ WF_vars(\E i \in 1..Len(workers) : DelayFire(i))

SpecBC == InitAll /\ [][NextBC]_vars

\* timers fire and every request is answered
FairSpecBC == SpecBC /\ WF_vars(NextBC)

SpecSC == InitAll /\ [][NextSC]_vars

InitSpecUI == InitWS /\ bad = {} /\ InitHD /\ InitBC /\ InitSC /\ InitUI /\ InitMS /\ InitCL /\ InitCC /\ InitSS

SpecUI == InitSpecUI /\ [][NextUI]_vars

SpecMS == InitAll /\ [][NextMS]_vars

SpecCL == InitAll /\ [][NextCL]_vars

SpecCC == InitAll /\ [][NextCC]_vars

\* every pending timer fires and every request is answered
FairSpecCC == SpecCC /\ \A c \in Callers : WF_vars(KProgress(c))

InitSpecSS == InitWS /\ bad = {} /\ InitHD /\ InitBC /\ InitSC /\ InitUIFixed /\ InitMS /\ InitCL /\ InitCC /\ InitSelected

SpecSS == InitSpecSS /\ [][NextSS]_vars

\* ---------------------------------------------------------------- claims

\* C1: at most one processSubscriptionQueue worker is active at any time, and
\* a subscribe that adds a symbol while a worker is active starts no worker
\* and opens no connection.
C1_SingleFlight ==
  [][ /\ Len(workers') <= 1
      /\ (workers # <<>> /\ ~(Range(subscriptionQueue') \subseteq Range(subscriptionQueue)))
           => (workers' = workers /\ connections' = connections) ]_vars

\* a symbol was queued behind the batch of the running worker
C1_Witness ==
  /\ Len(workers) = 1
  /\ workers[1].pc = "await"
  /\ \E s \in Range(subscriptionQueue) : s \notin Range(workers[1].batch)

\* C2: every symbol has at most one CONNECTING or OPEN socket created by the
\* manager.
C2_AtMostOneLive == \A s \in Symbols : live[s] <= 1

\* a symbol was reconnected while the socket of its previous subscription is
\* still closing
C2_Witness == \E s \in Symbols : live[s] = 1 /\ closing[s] >= 1 /\ IsLive(connections[s])

\* C3: after unsubscribe(s) on a connected s and no later subscribe(s), s has
\* no connection and is not listed by getActiveSubscriptions().
C3_UnsubscribeDestroys == \A s \in unsubscribed : connections[s] = "none"

\* C4: once handleDisconnection gave up on s (reconnectAttempts reached the
\* maximum), s is in neither map and no connection is made for it again.
C4_ExhaustedStaysOff ==
  \A s \in exhausted : connections[s] = "none" /\ reconnectAttemptsMap[s] = NoEntry

\* ceil(n / subscriptionBatchSize) batches, all but the last full
RECURSIVE FullBatches(_)
FullBatches(n) ==
  IF n <= 0 THEN <<>>
  ELSE <<Min(n, batchSize)>> \o FullBatches(n - batchSize)

\* C5: a burst of N subscribe calls whose connects all succeed is drained in
\* ceil(N/B) batches, all but the last of size B, with one delay between
\* consecutive batches and none after the last.
C5_BurstBatches ==
  (burstN > 0 /\ workers = <<>> /\ bad = {})
     => (batches = FullBatches(burstN) /\ delays = Len(batches) - 1)

\* C6: a running drain eventually ends with processingQueue = false.
C6_DrainTerminates == processingQueue ~> ~processingQueue

\* C7: one getHistoricalData call issues at most 3 upstream requests.
C7_AtMostThreeRequests == requests <= 3

\* C8: a first response 429 with Retry-After: r seconds followed by a
\* successful retry makes two upstream requests in total, the second one no
\* earlier than r seconds after the 429 arrived.
C8_RetryAfterHonoured ==
  (/\ Len(responses) >= 2
   /\ responses[1].kind = "429"
   /\ responses[1].ra >= 0
   /\ responses[2].kind \in {"bars", "noResults"})
     => (requests = 2 /\ issuedAt[2] >= receivedAt[1] + responses[1].ra * 1000)

\* a 429 with Retry-After: 2 was retried once and the call returned
C8_Witness ==
  /\ Len(responses) = 2
  /\ responses[1].kind = "429"
  /\ responses[1].ra = 2
  /\ responses[2].kind = "bars"
  /\ outcome = "returned"
  /\ Len(result) > 0

\* C9: after a first response with a fatal or auth error status the call
\* makes no further request and fails: it does not return.
C9_FatalPropagates ==
  (Len(responses) >= 1 /\ responses[1].kind = "http")
     => (requests = 1 /\ outcome # "returned")

AllNetwork == responses # <<>> /\ \A i \in 1..Len(responses) : responses[i].kind = "network"

\* C10: when every attempt fails with a network error the call makes exactly
\* 3 attempts, sleeps 1000 ms after the first and 2000 ms after the second
\* and not after the third, returns the empty sequence without throwing and
\* leaves the cache as it was.
C10_TransientFailSoft ==
  AllNetwork =>
    /\ outcome # "thrown"
    /\ cache = cacheAtStart
    /\ Len(responses) <= 3
    /\ waits = SubSeq(<<1000, 2000>>, 1, Len(waits))
    /\ \A i \in 2..Len(issuedAt) : issuedAt[i] = receivedAt[i - 1] + waits[i - 1]
    /\ (hpc \in {"request", "done"} => Len(waits) = Len(responses) - (IF hpc = "done" THEN 1 ELSE 0))
    /\ hpc \in {"done", "idle"} =>
          (Len(responses) = 3 /\ requests = 3 /\ waits = <<1000, 2000>>
           /\ result = <<>> /\ outcome = "returned")

\* three network errors in a row, the call has returned
C10_Witness == AllNetwork /\ hpc = "done" /\ Len(responses) = 3


\* the first response of the call says there is no data: status 404, a body
\* without a results array, or an empty results array
FirstIsEmpty ==
  /\ Len(responses) >= 1
  /\ \/ responses[1].kind \in {"404", "noResults"}
     \/ responses[1].kind = "bars" /\ payload = <<>>

\* C11: when the first response is a 404 or a 200 whose results are missing
\* or empty, the call returns the empty sequence after that one request,
\* without a retry, a wait or an error, and writes nothing to the cache.
C11_EmptyOnFirst ==
  FirstIsEmpty =>
    /\ hpc \in {"done", "idle"}
    /\ requests = 1
    /\ Len(responses) = 1
    /\ waits = <<>>
    /\ outcome = "returned"
    /\ result = <<>>
    /\ cache = cacheAtStart

\* a call answered 404 has returned
C11_Witness ==
  /\ hpc = "done"
  /\ Len(responses) = 1
  /\ responses[1].kind = "404"
  /\ result = <<>>

\* number of positions of seq that hold b
Count(seq, b) == Cardinality({i \in 1..Len(seq) : seq[i] = b})

\* the call fetched a results array and returned
FetchedBars ==
  /\ hpc \in {"done", "idle"}
  /\ responses # <<>>
  /\ responses[Len(responses)].kind = "bars"

\* C12: the sequence returned by a successful fetch holds exactly the bars of
\* the payload whose fields are all numbers, each as often as the payload
\* does, in order of non-decreasing timestamp.
C12_FilteredSorted ==
  FetchedBars =>
    /\ \A b \in Bars : Count(result, b) = (IF b.f # "str" THEN Count(payload, b) ELSE 0)
    /\ \A i \in 1..(Len(result) - 1) : result[i].t <= result[i + 1].t

\* a payload that arrived out of order was returned sorted
C12_Witness ==
  /\ FetchedBars
  /\ Len(payload) = 2
  /\ payload[1].t > payload[2].t
  /\ Len(result) = 2
  /\ result[1].t < result[2].t


\* C13: a call that finds the cached series of an earlier fetch issues no
\* upstream request and returns a sequence equal to the series that was
\* fetched and cached.
C13_CacheRoundTrip ==
  cacheAtStart # NoCache => (requests = 0 /\ result = cachedSeries)

\* C14: a call that starts more than one hour after the cache entry was
\* written finds no entry and fetches from upstream.
C14_ExpiredIsMiss ==
  ageAtStart > Hour => (cacheAtStart = NoCache /\ requests >= 1)


NoDuplicates(list) == \A i, j \in 1..Len(list) : list[i].symbol = list[j].symbol => i = j

\* C15: a getBlueChipStocks call terminates; when its ticker-list request
\* failed it returns the static list; every returned list holds every static
\* symbol and no symbol twice.
C15_StaticFallback ==
  /\ [](bpc = "done" /\ bcListFailed => bcResult = staticBlueChips)
  /\ [](bpc = "done" => (SymbolsOf(staticBlueChips) \subseteq SymbolsOf(bcResult)
                          /\ NoDuplicates(bcResult)))
  /\ (bpc \notin {"idle", "done"} ~> bpc = "done")


\* the handler answered a well-formed scan request
Scanned == spc = "done" /\ scStatus # 400

\* the gain and confidence computed for d pass the two thresholds
Qualifies(d) ==
  /\ d.kind = "ok"
  /\ (d.trendPrediction - d.currentPrice) * 100000 >= scMin * d.currentPrice
  /\ d.confidence # NaN
  /\ d.confidence > 500

\* C16: scan returns an Opportunity for a requested symbol exactly when its
\* computed potential_gain is at least the minimum and its confidence is
\* above 0.5 (4.99 is excluded and 5.00 included under a minimum of 5), and
\* the potential_gain and confidence fields of every returned Opportunity
\* satisfy the same two bounds.
C16_FilterBounds ==
  Scanned =>
    /\ scStatus = 200
    /\ \A i \in 1..Len(scSymbols) :
         (\E j \in 1..Len(scOpps) : scOpps[j].symbol = scSymbols[i])
           <=> Qualifies(scData[scSymbols[i]])
    /\ \A j \in 1..Len(scOpps) :
         scOpps[j].potential_gain >= scMin /\ scOpps[j].confidence > 500

\* C17: the opportunities of the response are in order of non-increasing
\* potential_gain, and no symbol has more opportunities than occurrences in
\* the request.
C17_SortedByGain ==
  Scanned =>
    /\ \A j \in 1..(Len(scOpps) - 1) :
         scOpps[j].potential_gain >= scOpps[j + 1].potential_gain
    /\ \A s \in ScanSymbols :
         Cardinality({j \in 1..Len(scOpps) : scOpps[j].symbol = s})
           <= Cardinality({i \in 1..Len(scSymbols) : scSymbols[i] = s})

\* two opportunities were returned, the later requested one first
C17_Witness ==
  /\ Scanned
  /\ Len(scOpps) = 2
  /\ scOpps[1].potential_gain > scOpps[2].potential_gain
  /\ scOpps[1].symbol = scSymbols[2]
  /\ scOpps[2].symbol = scSymbols[1]

\* the request without every occurrence of s
Without(symbols, s) == SelectSeq(symbols, LAMBDA x : x # s)

\* C18: when processing one requested symbol raises, the scan still answers
\* 200 and its opportunities are exactly those of the same request without
\* that symbol.
C18_SymbolIsolation ==
  Scanned =>
    \A i \in 1..Len(scSymbols) :
      scData[scSymbols[i]].kind = "raises" =>
        /\ scStatus = 200
        /\ scOpps = ValidOpportunities(Without(scSymbols, scSymbols[i]), scData, scMin)

\* a request with a raising symbol ahead of a qualifying one was answered
C18_Witness ==
  /\ Scanned
  /\ Len(scSymbols) = 2
  /\ scData[scSymbols[1]].kind = "raises"
  /\ Len(scOpps) = 1
  /\ scOpps[1].symbol = scSymbols[2]


\* the updates of the last delivery that name the symbol of opp
Matching(opp) == {j \in 1..Len(delivered) : delivered[j].symbol = opp.symbol}

\* C19: after onUpdate was applied for the delivered updates, an Opportunity
\* whose symbol was delivered has current_price equal to the update's price
\* and potential_gain = (target_price - current_price) / current_price * 100,
\* its other fields are unchanged, every other Opportunity is unchanged, and
\* an update whose symbol has no Opportunity changes nothing.
C19_UpdateFrame ==
  /\ Len(opportunities) = Len(oppsBefore)
  /\ \A i \in 1..Len(opportunities) :
       IF Matching(oppsBefore[i]) = {}
         THEN opportunities[i] = oppsBefore[i]
         ELSE \A j \in Matching(oppsBefore[i]) :
                /\ opportunities[i].current_price = delivered[j].price
                /\ opportunities[i].potential_gain =
                     ((opportunities[i].target_price - opportunities[i].current_price) * 100000)
                       \div opportunities[i].current_price
                /\ opportunities[i].symbol = oppsBefore[i].symbol
                /\ opportunities[i].target_price = oppsBefore[i].target_price
                /\ opportunities[i].confidence = oppsBefore[i].confidence
                /\ opportunities[i].volatility = oppsBefore[i].volatility
                /\ opportunities[i].market_correlation = oppsBefore[i].market_correlation

\* an update changed one of two opportunities, and an update for a symbol
\* without an Opportunity was delivered with it
C19_Witness ==
  /\ Len(opportunities) = 2
  /\ Len(delivered) = 2
  /\ opportunities[1] # oppsBefore[1]
  /\ opportunities[2] = oppsBefore[2]
  /\ opportunities[1].current_price = 9000
  /\ \E j \in 1..2 : \A i \in 1..2 : delivered[j].symbol # opportunities[i].symbol

\* C20: in batched mode a flush calls onUpdate at most once per symbol, only
\* for symbols that got an update since the previous flush, and with the
\* latest update of that symbol.
C20_FlushOnlyFresh ==
  (batchUpdates /\ flushes >= 1) =>
    /\ \A i, j \in 1..Len(delivered) : delivered[i].symbol = delivered[j].symbol => i = j
    /\ \A j \in 1..Len(delivered) :
         /\ delivered[j].symbol \in freshAtFlush
         /\ \E k \in 1..Len(latestAtFlush) : latestAtFlush[k] = delivered[j]

\* the type the frame has under the stated priority: error, then trade for a
\* frame that carries p or price, then quote
ClassOf(data) ==
  IF data.type = "error" THEN "error"
  ELSE IF data.p # Absent \/ data.price # Absent THEN "trade"
  ELSE "quote"

\* C21: every incoming JSON frame is broadcast once to every current
\* listener, typed 'error' when its type field is "error", else 'trade' when
\* it carries p or price, else 'quote'.
C21_Classified ==
  lastFrame # NoFrame =>
    /\ lastMessage # NoMessage
    /\ lastFrame.json = "object" => lastMessage.type = ClassOf(lastFrame)
    /\ \A l \in Listeners : got[l] = (IF l \in listenersAt THEN 1 ELSE 0)

\* C22: for a price sequence shorter than 2, volatility and trendStrength
\* are exactly 0; for one shorter than 3, consistency is exactly 0.
C22_ShortDefaults ==
  cpc = "done" =>
  /\ Len(cPrices) < 2 => (cVolatility = 0 /\ cTrend = 0)
  /\ Len(cPrices) < 3 => cConsistency = 0

\* C23: for positive prices of length at least 3 whose volatility and
\* correlation are numbers, confidence lies within [0, 1].
C23_ConfidenceRange ==
  (cpc = "done" /\ Len(cPrices) >= 3 /\ cVolatility # NaN /\ cCorrelation # NaN)
     => (cConfidence # NaN /\ 0 <= cConfidence /\ cConfidence <= 100)

\* every simple return of the series is the same: its variance term is 0
ZeroVariance(prices) ==
  \A i, j \in 1..(Len(prices) - 1) :
    (prices[i + 1] - prices[i]) * prices[j] = (prices[j + 1] - prices[j]) * prices[i]

\* C24: correlation is exactly 0 when the two sequences differ in length or
\* the variance term of either return series is 0.
C24_CorrelationZero ==
  (cpc = "done" /\ (Len(cPrices) # Len(cMarket) \/ ZeroVariance(cPrices)
                                               \/ ZeroVariance(cMarket)))
     => cCorrelation = 0

\* C25: a remote close of the registered socket of s below the attempt
\* limit adds exactly 1 to reconnectAttempts of s and arms the reconnect
\* timer, and when that timer fires while the closed socket is still the
\* registered one, a new connection for s is created.
C25_Reconnects ==
  [][ \A s \in Symbols :
        /\ (IsLive(connections[s]) /\ connections'[s] = "closed")
              => (reconnectAttemptsMap'[s] = Attempts(s) + 1 /\ timers'[s] = timers[s] + 1)
        /\ (timers'[s] < timers[s] /\ connections[s] = "closed")
              => IsLive(connections'[s]) ]_vars

\* the step is the resumption of drain i after its batch settled
Resumes(i) ==
  /\ i \in 1..Len(workers)
  /\ workers[i].pc = "await"
  /\ \/ workers' = [workers EXCEPT ![i].pc = "delay"]
     \/ workers' = RemoveAt(workers, i)

\* the step is a later iteration of a drain loop that found symbols pending
Iterates ==
  /\ \E i \in 1..Len(workers) : workers[i].pc = "delay"
  /\ subscriptionQueue # <<>>
  /\ round' # round

\* C26: when a connect of a drain batch fails, the pending set is left as it
\* is and the next iteration attempts every symbol of that batch again; when
\* every connect of the batch succeeds, exactly the symbols of the batch
\* leave the pending set.
C26_BatchRetry ==
  [][ /\ \A i \in 1..Len(workers) : Resumes(i) =>
           IF workers[i].failed
             THEN /\ subscriptionQueue' = subscriptionQueue
                  /\ workers' = [workers EXCEPT ![i].pc = "delay"]
                  /\ Range(workers[i].batch) \subseteq Range(Batch(subscriptionQueue'))
             ELSE Range(subscriptionQueue') = Range(subscriptionQueue) \ Range(workers[i].batch)
      /\ Iterates =>
           IF \E x \in Range(Batch(subscriptionQueue)) : ~HasConnection(x) /\ x \in bad
             THEN /\ subscriptionQueue' = subscriptionQueue
                  /\ \E i \in 1..Len(workers') :
                        /\ workers'[i].pc = "delay"
                        /\ workers'[i].failed
                        /\ workers'[i].batch = Batch(subscriptionQueue)
             ELSE Range(subscriptionQueue') = Range(subscriptionQueue) \ Range(Batch(subscriptionQueue))
    ]_vars

\* a batch with a failing and a succeeding connect was attempted again: the
\* succeeding symbol is connected and still pending
C26_Witness ==
  \E i \in 1..Len(workers) :
    /\ workers[i].pc = "delay"
    /\ workers[i].failed
    /\ round = 1
    /\ \E s \in Range(workers[i].batch) : HasConnection(s) /\ s \in Range(subscriptionQueue)

\* C27: every pending symbol whose own connect would succeed is eventually
\* connected, whatever happens to the other pending symbols (a symbol that a
\* drain took out of the pending set counts as served: its connect ran).
C27_SiblingsConnect ==
  \A s \in Symbols :
    (s \in Range(subscriptionQueue) /\ s \notin bad)
       ~> (HasConnection(s) \/ s \notin Range(subscriptionQueue))

\* C28: the series a getHistoricalData call returns, fetched or read from
\* the cache, has strictly increasing timestamps: no two of its bars share
\* a timestamp.
C28_DistinctTimestamps ==
  outcome = "returned" =>
    \A i, j \in 1..Len(result) : i < j => result[i].t < result[j].t

\* every bar of the series has number fields and the timestamps do not decrease
ValidSeries(series) ==
  /\ \A i \in 1..Len(series) : IsNumber(series[i].f)
  /\ \A i \in 1..(Len(series) - 1) : series[i].t <= series[i + 1].t

\* a call that missed the cache returned a valid series
RaceResultsValid ==
  \A c \in Callers : (kpc[c] = "done" /\ c \notin kHit) => ValidSeries(kResult[c])

\* the cache entry is the value of the latest write
LastWriterWins == kLastWrite # NoCache => kCache = kLastWrite

\* a call served from the cache returned one of the written values, whole
ReadsWhole ==
  \A c \in kHit : kpc[c] = "done" => \E w \in kWrites : kResult[c] = Parse(w)

\* C29: once two calls on the key are in flight after both missed the cache,
\* each of them completes and returns a valid series, the cache entry is
\* the value of the call that wrote last, and a call served from the cache
\* gets a written value as a whole.
C29_RaceTolerated ==
  /\ [](kRaced => (RaceResultsValid /\ LastWriterWins /\ ReadsWhole))
  /\ \A c \in Callers : (kRaced /\ InFlight(c)) ~> (kpc[c] = "done")

\* updates.get(symbol): the price of the entry, NoPrice without an entry
PriceIn(map, s) ==
  IF \E i \in 1..Len(map) : map[i].symbol = s
    THEN (CHOOSE u \in Range(map) : u.symbol = s).price
    ELSE NoPrice

\* C30: the hook's map has exactly one entry for every symbol that got a
\* trade or quote message, holding the update of the latest such message,
\* and no entry for any other symbol; a message of type 'error' changes no
\* entry of the map and makes no onUpdate call.
C30_LatestUpdateKept ==
  /\ [](/\ \A s \in MessageSymbols : PriceIn(updates, s) = latestOf[s]
        /\ \A i, j \in 1..Len(updates) : updates[i].symbol = updates[j].symbol => i = j
        /\ \A i \in 1..Len(updates) : updates[i].symbol \in MessageSymbols)
  /\ [][errors' # errors => (updates' = updates /\ onUpdateCalls' = onUpdateCalls)]_vars

\* three messages, one of them an error, two for the same symbol with
\* different prices: the entry holds the later price and the Opportunity
\* had the earlier price before the last delivery
C30_Witness ==
  /\ ~batchUpdates
  /\ messages = 3
  /\ errors = 1
  /\ Len(updates) = 1
  /\ updates[1].price = 9000
  /\ onUpdateCalls = 2
  /\ \E i \in 1..Len(oppsBefore) :
       /\ oppsBefore[i].symbol = updates[1].symbol
       /\ oppsBefore[i].current_price = 10500

\* the step starts fetches
StartsFetches == fetched' # fetched

\* C31: during a bulk scan at most 3 fetches are in flight; the fetches of a
\* later chunk start only when every fetch of the chunk before has settled
\* and the inter-chunk delay that followed it has elapsed; no delay follows
\* the last chunk.
C31_ChunkedFetches ==
  /\ [](/\ Cardinality(inFlight) <= 3
        /\ ssPc = "delay" => batchNo < NumBatches(selectedStocks)
        /\ chunkDelays = (IF batchNo = 0 THEN 0 ELSE batchNo - 1))
  /\ [][StartsFetches =>
          /\ inFlight = {}
          /\ batchNo' = batchNo + 1
          /\ inFlight' = Range(BatchOf(selectedStocks, batchNo'))
          /\ batchNo > 0 =>
               /\ ssPc = "delay"
               /\ \A s \in Range(BatchOf(selectedStocks, batchNo)) : batchResults[s] # "none"
               /\ lastDelayed' = batchNo
               /\ chunkDelays' = chunkDelays + 1]_vars

\* a scan of seven symbols ran its three chunks with two delays
C31_Witness ==
  /\ Len(selectedStocks) = 7
  /\ ssPc = "done"
  /\ batchNo = 3
  /\ chunkDelays = 2
  /\ fetched = Range(selectedStocks)

\* the entry of the list for symbol s
EntryOf(list, s) == CHOOSE o \in Range(list) : o.symbol = s

\* C32: after a partial result was merged into the displayed list, the list
\* holds exactly one Opportunity per symbol of the old list and the partial
\* result, and for a symbol of both it holds the one of the partial result.
C32_MergeKeepsLatest ==
  [][merges' # merges =>
       /\ \A i, j \in 1..Len(shown') : shown'[i].symbol = shown'[j].symbol => i = j
       /\ SymbolsOf(shown') = SymbolsOf(mergePrev') \cup SymbolsOf(mergeNew')
       /\ \A o \in Range(mergeNew') : EntryOf(shown', o.symbol) = o]_vars

\* the chunk loop ran to its end
LoopEnded == ssPc \in {"final", "done"}

\* C33: when the chunk loop has ended, the fetch of every selected symbol
\* was started, whatever the other fetches did, and every selected symbol
\* is in exactly one of validHistoricalData and failedStocks, so the two
\* counts add up to the number of selected symbols.
C33_PartialSuccess ==
  LoopEnded =>
    /\ fetched = Range(selectedStocks)
    /\ Range(validHistoricalData) \cup Range(failedStocks) = Range(selectedStocks)
    /\ Range(validHistoricalData) \cap Range(failedStocks) = {}
    /\ Len(validHistoricalData) + Len(failedStocks) = Len(selectedStocks)

\* a scan of seven symbols ended although the first fetch threw and another
\* came back empty: the last symbol succeeded
C33_Witness ==
  /\ Len(selectedStocks) = 7
  /\ LoopEnded
  /\ Len(failedStocks) >= 2
  /\ failedStocks[1] = selectedStocks[1]
  /\ selectedStocks[7] \in Range(validHistoricalData)

\* max(0, S + m) as stated: the k <= 5 most recent returns, the oldest of
\* them first, weighted by the weights from position first on
StatedTrend(prices, first) ==
  IF Len(prices) < 2 THEN 0
  ELSE LET n == Len(prices)
           k == Min(n - 1, Len(weights))
           S == Sum([j \in 1..k |->
                       (Returns(prices)[n - 1 - k + j] * weights[first + j - 1]) \div Scale])
           m == IF n >= 3 /\ Returns(prices)[n - 1] > Returns(prices)[n - 2] THEN 2 ELSE 0
       IN Max0(S + m)

\* C34: trendStrength is max(0, S + m), S the weighted sum of the at most 5
\* most recent returns with the weights rising towards the most recent
\* return (counted from the first weight, or ending at the last weight), m
\* the momentum bonus; for two or more prices the predicted price is
\* lastPrice * (1 + trendStrength * 0.15).
C34_TrendStrength ==
  (cpc = "done" /\ Len(cPrices) >= 2) =>
    LET k == Min(Len(cPrices) - 1, Len(weights))
    IN /\ cTrend \in {StatedTrend(cPrices, 1), StatedTrend(cPrices, Len(weights) - k + 1)}
       /\ TrendPrediction(cPrices) =
            (cPrices[Len(cPrices)] * (Scale * Scale + cTrend * 15)) \div Scale

\* the seconds a Retry-After value asks for (0 when absent or not a number)
HeaderWait(ra) == IF ra >= 0 THEN ra * 1000 ELSE 0

\* C35: the request that follows a 429 response is issued no earlier than
\* max(Retry-After, default wait) after the 429 arrived and less than one
\* second (the jitter) later than that.
C35_WaitAtLeastDefault ==
  \A i \in 1..Len(responses) :
    (responses[i].kind = "429" /\ Len(issuedAt) > i) =>
      LET waited == issuedAt[i + 1] - receivedAt[i]
          stated == IF HeaderWait(responses[i].ra) > DefaultRateLimitWait
                      THEN HeaderWait(responses[i].ra) ELSE DefaultRateLimitWait
      IN waited >= stated /\ waited < stated + 1000

\* C36: in batched mode an update that is stored and not yet flushed is
\* never older than one updateInterval: the flush that delivers it (or the
\* newer update of its symbol) fires within one updateInterval, whatever
\* further messages arrive.
C36_FlushWithinInterval ==
  (batchUpdates /\ fresh # {}) => waiting <= updateInterval

\* C37: unsubscribe(symbol) cancels a pending subscription: once
\* unsubscribe(s) was called for a symbol that was pending and not connected,
\* and as long as no subscribe(s) follows, no step of the drain worker
\* creates a connection for s (a step that consumes a reconnect timer of s
\* is the reconnect path, not the drain worker).
C37_UnsubscribeCancelsPending ==
  [][\A s \in cancelled \cap cancelled' :
       timers'[s] = timers[s] => live'[s] <= live[s]]_vars

\* the symbols of an opportunities list
OppSymbols(opps) == {opps[i].symbol : i \in 1..Len(opps)}

\* C38: applying a live price tick leaves the subscription set untouched: a
\* step that reconciles a StockUpdate and leaves the set of opportunity
\* symbols unchanged issues no websocketService.subscribe and no
\* websocketService.unsubscribe call (and so closes no connection).
C38_TickKeepsSubscriptions ==
  [][(ticks' = ticks + 1 /\ OppSymbols(shown') = OppSymbols(shown))
       => (subscribeCalls' = subscribeCalls /\ unsubscribeCalls' = unsubscribeCalls)]_vars

\* C39: every StockUpdate delivered to onUpdate has a numeric price, for
\* every trade or quote frame the manager classifies (a quote frame without
\* a c field included): no shown Opportunity has an undefined current_price
\* or a NaN potential_gain.
C39_NumericPrice ==
  \A i \in 1..Len(shown) :
     shown[i].current_price # Absent /\ shown[i].potential_gain # NaN

\* the cache entry of the key, read back, is a non-empty series of bars
\* whose fields are all numbers, in order of non-decreasing timestamp
CachedEntryValid ==
  cache # NoCache =>
    LET series == Parse(cache)
    IN /\ Len(series) > 0
       /\ \A i \in 1..Len(series) : IsNumber(series[i].f)
       /\ \A i \in 1..(Len(series) - 1) : series[i].t <= series[i + 1].t

\* a step that creates or overwrites the entry is the step of a response
\* with a results array that holds at least one valid bar
WrittenByBars ==
  (cache' # NoCache /\ cache' # cache) =>
     /\ responses' # <<>>
     /\ responses'[Len(responses')].kind = "bars"
     /\ Len(result') > 0

\* C40: in every reachable state the cached historical series is non-empty,
\* all its bars have numeric fields and it is sorted by ascending timestamp;
\* empty results, not-found results and failed fetches never create or
\* overwrite the cache entry.
C40_CacheHoldsValidSeries ==
  [](CachedEntryValid) /\ [][WrittenByBars]_vars
====
